---- MODULE Spec2Model ----
(***************************************************************************)
(* Model of the data pipeline of speech2affective_gestures:                *)
(*   - load_iemocap_data (loader_v2.py): fixed-length windower and the     *)
(*     train/validation/test index lists;                                  *)
(*   - Processor.extend_word_seq (processor_v2.py): word-to-frame grid;    *)
(*   - Processor.render_clip (processor_v2.py): sliding-window synthesis;  *)
(*   - Processor.yield_batch (processor_v2.py): batch sampler.             *)
(* Each component has its own specification; the variables of the other    *)
(* components stay at their idle values.                                   *)
(***************************************************************************)
EXTENDS Integers, Sequences, FiniteSets, TLC

VARIABLES
    \* ---- load_iemocap_data ----
    ie_pc,            \* "idle" | "scan" | "dialog" | "built" | "aborted" | "failed"
    block_size,       \* the block_size argument
    ie_session,       \* session number of the dialog whose .wav files are being read
    ie_left,          \* .wav files of the current dialog not yet read
    ie_utts,          \* .wav files read so far
    data_wav_list_1,  \* emitted blocks (mel stream), in emission order
    labels_cat_list,  \* label of each emitted block
    data_count,       \* number of emitted blocks
    train_idx, val_idx, test_idx,   \* 0-based block indices of each split
    train_data_wav_1, val_data_wav_1, test_data_wav_1,
    ie_stats,         \* max1 and min1 of the training blocks
    train_data_wav, val_data_wav, test_data_wav,  \* normalised blocks: numerators over max1 - min1
    ie_saved,         \* the processed archives and the stats file are written
    ie_mismatch,      \* history: a dialog's annotation and .wav counts differed
    utt_log,          \* history: one record per .wav file read
    win_begin,        \* history: begin offset of each emitted block
    \* ---- Processor.extend_word_seq ----
    al_pc,            \* "idle" | "call" | "done"
    al_n_frames,      \* argument n_frames
    al_remove_word_timing,   \* argument remove_word_timing
    al_words,         \* argument words: sequence of [word, start]
    al_aux_info,      \* argument aux_info: [start_time, end_time]
    al_end_time,      \* argument end_time (None or a time)
    al_result,        \* the returned extended_word_indices
    \* ---- Processor.render_clip ----
    rc_pc,            \* "idle" | "init" | "window" | "stitched" | "faded" | "error" | "skipped" | "returned"
    rc_cfg,           \* n_poses, n_pre_poses, fps, sample_rate, len(clip_audio), unit_time
    num_subdivisions, \* number of windows
    audio_sample_length,     \* samples of one window's audio input
    sub_div_idx,      \* index of the next window
    end_padding_duration,    \* samples padded to the last window's audio
    out_list,         \* per-window output frames, blended and trimmed so far
    out_dir_vec,      \* in the loop the s2ag generator's output tensor of the latest
                      \* window, after it the stitched output (np.vstack(out_list))
    rc_raw,           \* history: each window's frames as the generator returned them
    rc_call,          \* check_duration, clip_time and fade_out of the call
    clip_words,       \* the clip's words: [word, start, end]
    start_frame,      \* the fade-out's start frame: <<>> until computed, then <<frame>>
    rc_in,            \* history: each window's audio input: samples sliced, samples padded
    rc_skipped,       \* history: an earlier clip of the bulk loop was skipped
    rc_device,        \* self.device: "cuda" | "cpu"
    pre_seq,          \* the s2ag generator's pre-sequence: frames [pose, bit]
    pre_seq_trimodal, \* the trimodal generator's pre-sequence
    out_list_trimodal,       \* per-window output frames of the trimodal generator
    out_dir_vec_trimodal,    \* as out_dir_vec, for the trimodal generator
    rc_raw_trimodal,  \* history: each window's frames as the trimodal generator returned them
    end_frame,        \* the fade-out's end frame: <<>> until computed, then <<frame>>
    rc_zeroed,        \* history: the frames (counted from 1) the fade-out set to zero
    rc_smoothed,      \* history: the frames (counted from 1) the fade-out replaced by the fit
    \* ---- Processor.yield_batch ----
    yb_pc,            \* "idle" | "call" | "loop" | "done" | "error"
    train,            \* the train argument
    batch_size,       \* args.batch_size
    train_speaker_model, val_speaker_model,  \* n_words of the Vocab, None if not a Vocab
    vid_indices,      \* samples['vid_indices'] of the split the call reads
    num_data,         \* number of samples of that split
    pseudo_passes,    \* number of passes of the call
    yb_p,             \* index of the next pass
    rand_keys,        \* sample indices drawn for the latest pass (0-based)
    batch_vid_indices,       \* foreign speaker indices of the latest batch, <<>> for None
    yb_yielded,       \* batches yielded so far
    \* ---- the audio of one cached sample (save_cache, yield_batch) ----
    au_pc,            \* "idle" | "raw" | "stored" | "decoded"
    au_audio,         \* the sample's audio as read from the session store
    audio_length,     \* self.audio_length
    au_fixed,         \* history: the audio after make_audio_fixed_length
    audio_max,        \* audio_max_all[k]
    au_stored,        \* audio_all[k], int16
    batch_audio,      \* numerators of the decoded audio, over Int16Max
    \* ---- the sample cache (Processor.__init__, save_cache, load_cache) ----
    ch_pc,            \* "idle" | "construct" | "save" | "load" | "constructed" | "saved" | "ready" | "error"
    ch_part,          \* the part argument: 'train' | 'val' | 'test'
    load_full,        \* the load_full argument of load_cache
    ch_store,         \* the split's session store, one record per sample index
    fs_dirs,          \* directories that exist
    fs_samples,       \* per-sample archives that exist: <<directory, file name>> -> fields
    fs_full,          \* the consolidated archive <dir_name>/../full/<part>.npz
    ch_k,             \* save_cache's loop index
    ch_all,           \* save_cache's *_all arrays, one row per sample
    samples_dict,     \* the split's loaded samples (self.<part>_samples)
    ch_from_init,     \* the call is the one made by Processor.__init__
    ch_missing,       \* history: dir_name did not exist at construction
    ch_source         \* history: what load_cache read: "none" | "full" | "files" | "raised"

\* Speaker vocabulary cache (TedDBParams, TedDBParamsMinimal).
VARIABLES sp_pc,             \* "init", "scanning", "constructed", "error"
          sp_class,          \* the class being constructed
          sp_arg,            \* the speaker_model argument of the constructor
          lmdb_vids,         \* the vid of every record of the split's store, in key order
          sp_cursor,         \* records the cursor has passed
          sp_vocab,          \* the Vocab under construction in _make_speaker_model
          self_speaker_model, \* self.speaker_model
          precomputed_model, \* the file <lmdb_dir>_s2ag_speaker_model.pkl
          sp_absent,         \* history: the file was absent when this construction began
          sp_built,          \* history: this construction scanned the store
          sp_first,          \* history: the mapping of the first construction without argument
          sp_runs            \* constructions begun

\* Derived lengths (TedDBParams and Processor construction).
VARIABLES pm_pc,                  \* "init", "params", "processor"
          pm_n_poses,             \* n_poses
          pm_fps,                 \* pose_resampling_fps
          expected_audio_length,  \* TedDBParams.expected_audio_length
          ted_mfcc_length,        \* TedDBParams.mfcc_length
          proc_audio_length,      \* Processor.audio_length
          proc_mfcc_length        \* Processor.mfcc_length

\* Processor.words_to_tensor.
VARIABLES wt_pc,            \* "call", "done"
          wt_words,         \* argument words: sequence of [word, start]
          wt_end_time,      \* argument end_time (None or a time)
          word_seq_tensor   \* the returned indexes

\* The normalisation statistics of load_iemocap_data.
VARIABLES st_pc,          \* "absent", "built", "loaded"
          st_train,       \* the values of train_data_wav_1, _2 and _3
          stats_file,     \* the pickled tuple, <<>> while the file does not exist
          max_all,        \* the returned max_all
          min_all,        \* the returned min_all
          st_built        \* history: <<max_all, min_all>> as the building call returned them

\* Processor.generate_gestures and return_batch.
VARIABLES gg_pc,                \* "call", "loop", "done"
          samples_to_generate,  \* argument samples_to_generate
          gg_randomized,        \* argument randomized
          num_test_samples,     \* self.num_test_samples
          sample_idx,           \* the loop variable: first index of the next chunk
          samples_curr,         \* the latest chunk of indices
          rb_rand_keys,         \* rand_keys of the latest return_batch call
          gg_evaluated          \* history: the keys of every batch evaluated, in order

\* Processor.train and per_val_epoch.
VARIABLES tr_pc,              \* "loop", "done"
          tr_args,            \* val_interval, save_interval, num_epoch, s2ag_num_epoch
          min_train_epochs,   \* self.min_train_epochs
          tr_epoch,           \* the loop variable epoch: the next epoch to run
          best_s2ag_loss,     \* self.best_s2ag_loss
          s2ag_loss_updated,  \* self.s2ag_loss_updated
          mean_s2ag_loss,     \* self.epoch_info['mean_s2ag_loss'], <<>> while unset
          tr_validated,       \* history: the latest epoch ran per_val_epoch
          tr_improved,        \* history: that validation lowered best_s2ag_loss
          tr_saved            \* history: the latest epoch wrote a checkpoint

\* load_ted_db_data and save_as_npz.
VARIABLES td_pc,              \* "call", "saving", "done", "error"
          load_train_val,     \* argument load_train_val
          ted_db_npz_already_processed,   \* argument ted_db_npz_already_processed
          td_sizes,           \* records in the store of each split
          td_calls,           \* the save_as_npz calls still to make: <<dataset, part_name>>
          td_individual       \* the archives under individual/<part_name>, by key

ie_vars == <<ie_pc, block_size, ie_session, ie_left, ie_utts, data_wav_list_1, labels_cat_list,
             data_count, train_idx, val_idx, test_idx,
             train_data_wav_1, val_data_wav_1, test_data_wav_1, ie_stats,
             train_data_wav, val_data_wav, test_data_wav, ie_saved, ie_mismatch,
             utt_log, win_begin>>

al_vars == <<al_pc, al_n_frames, al_remove_word_timing, al_words, al_aux_info,
             al_end_time, al_result>>

rc_vars == <<rc_pc, rc_cfg, num_subdivisions, audio_sample_length, sub_div_idx,
             end_padding_duration, out_list, out_dir_vec, rc_raw,
             rc_call, clip_words, start_frame, rc_in, rc_skipped,
             rc_device, pre_seq, pre_seq_trimodal, out_list_trimodal, out_dir_vec_trimodal,
             rc_raw_trimodal, end_frame, rc_zeroed, rc_smoothed>>

yb_vars == <<yb_pc, train, batch_size, train_speaker_model, val_speaker_model, vid_indices,
             num_data, pseudo_passes, yb_p, rand_keys, batch_vid_indices, yb_yielded>>

au_vars == <<au_pc, au_audio, audio_length, au_fixed, audio_max, au_stored, batch_audio>>

ch_vars == <<ch_pc, ch_part, load_full, ch_store, fs_dirs, fs_samples, fs_full, ch_k, ch_all,
             samples_dict, ch_from_init, ch_missing, ch_source>>

sp_vars == <<sp_pc, sp_class, sp_arg, lmdb_vids, sp_cursor, sp_vocab, self_speaker_model,
             precomputed_model, sp_absent, sp_built, sp_first, sp_runs>>

pm_vars == <<pm_pc, pm_n_poses, pm_fps, expected_audio_length, ted_mfcc_length, proc_audio_length, proc_mfcc_length>>

wt_vars == <<wt_pc, wt_words, wt_end_time, word_seq_tensor>>

st_vars == <<st_pc, st_train, stats_file, max_all, min_all, st_built>>

gg_vars == <<gg_pc, samples_to_generate, gg_randomized, num_test_samples, sample_idx, samples_curr, rb_rand_keys, gg_evaluated>>

tr_vars == <<tr_pc, tr_args, min_train_epochs, tr_epoch, best_s2ag_loss, s2ag_loss_updated, mean_s2ag_loss, tr_validated, tr_improved, tr_saved>>

td_vars == <<td_pc, load_train_val, ted_db_npz_already_processed, td_sizes, td_calls, td_individual>>

vars == <<ie_vars, al_vars, rc_vars, yb_vars, au_vars, ch_vars, sp_vars, pm_vars, wt_vars, st_vars, gg_vars, tr_vars, td_vars>>

\* The variables each component leaves alone.
ie_others == <<al_vars, rc_vars, yb_vars, au_vars, ch_vars, sp_vars, pm_vars, wt_vars, st_vars, gg_vars, tr_vars, td_vars>>
al_others == <<ie_vars, rc_vars, yb_vars, au_vars, ch_vars, sp_vars, pm_vars, wt_vars, st_vars, gg_vars, tr_vars, td_vars>>
rc_others == <<ie_vars, al_vars, yb_vars, au_vars, ch_vars, sp_vars, pm_vars, wt_vars, st_vars, gg_vars, tr_vars, td_vars>>
yb_others == <<ie_vars, al_vars, rc_vars, au_vars, ch_vars, sp_vars, pm_vars, wt_vars, st_vars, gg_vars, tr_vars, td_vars>>
au_others == <<ie_vars, al_vars, rc_vars, yb_vars, ch_vars, sp_vars, pm_vars, wt_vars, st_vars, gg_vars, tr_vars, td_vars>>
ch_others == <<ie_vars, al_vars, rc_vars, yb_vars, au_vars, sp_vars, pm_vars, wt_vars, st_vars, gg_vars, tr_vars, td_vars>>
sp_others == <<ie_vars, al_vars, rc_vars, yb_vars, au_vars, ch_vars, pm_vars, wt_vars, st_vars, gg_vars, tr_vars, td_vars>>
pm_others == <<ie_vars, al_vars, rc_vars, yb_vars, au_vars, ch_vars, sp_vars, wt_vars, st_vars, gg_vars, tr_vars, td_vars>>
wt_others == <<ie_vars, al_vars, rc_vars, yb_vars, au_vars, ch_vars, sp_vars, pm_vars, st_vars, gg_vars, tr_vars, td_vars>>
st_others == <<ie_vars, al_vars, rc_vars, yb_vars, au_vars, ch_vars, sp_vars, pm_vars, wt_vars, gg_vars, tr_vars, td_vars>>
gg_others == <<ie_vars, al_vars, rc_vars, yb_vars, au_vars, ch_vars, sp_vars, pm_vars, wt_vars, st_vars, tr_vars, td_vars>>
tr_others == <<ie_vars, al_vars, rc_vars, yb_vars, au_vars, ch_vars, sp_vars, pm_vars, wt_vars, st_vars, gg_vars, td_vars>>
td_others == <<ie_vars, al_vars, rc_vars, yb_vars, au_vars, ch_vars, sp_vars, pm_vars, wt_vars, st_vars, gg_vars, tr_vars>>

(***************************************************************************)
(* Generic helpers                                                         *)
(***************************************************************************)
Range(s) == {s[i] : i \in 1..Len(s)}

Zeros(n) == [i \in 1..n |-> 0]

Max(a, b) == IF a >= b THEN a ELSE b

Min(a, b) == IF a <= b THEN a ELSE b

\* floor(a / b) and ceil(a / b) of the exact quotient, b > 0
Floor(a, b) == a \div b

Ceil(a, b) == -((-a) \div b)

RECURSIVE Pow(_, _)
Pow(b, e) == IF e = 0 THEN 1 ELSE b * Pow(b, e - 1)

\* np.vstack of a list of frame sequences
RECURSIVE VStack(_)
VStack(list) == IF list = <<>> THEN <<>> ELSE Head(list) \o VStack(Tail(list))

\* Python's None where a time is expected: no time is negative.
None == -1

\* The greatest element of a set of integers: the least of the negated elements.
SetMax(S) == -(CHOOSE x \in {-y : y \in S} : \A z \in {-y : y \in S} : x <= z)

(***************************************************************************)
(* load_iemocap_data: the windower                                         *)
(***************************************************************************)
Stride == 100

session_set_train == {1, 2, 3, 4}

session_set_test == {5}

\* Bounds of the model.
MaxUtts == 2          \* .wav files read in one load
MaxExtra == 1         \* longest utterance: block_size + MaxExtra * Stride frames
BlockSmall == 4       \* a block_size below the stride (windows do not overlap)
BlockLarge == 120     \* a block_size above the stride (windows overlap)

\* Values of the block_size argument tried.
BlockSizes == {BlockSmall, BlockLarge}

\* Session directories tried: the last training session and the held-out one.
Sessions == {4, 5}

\* Role marker at position [-8] of the .wav file name.
Markers == {"F", "M"}

\* Feature lengths tried: around block_size and around each stride boundary.
Lengths(bs) ==
    {bs - 1, bs}
        \cup {bs + k * Stride - 1 : k \in 1..MaxExtra}
        \cup {bs + k * Stride : k \in 1..MaxExtra}

\* mel_spec of the u-th .wav file: `time` rows, each row a distinct non-zero value.
mel_spec(u, time) == [r \in 1..time |-> 1000 * u + r]

\* emotions_cat[wav_idx]: the annotated category of the utterance (7 categories).
emotions_cat(u) == u % 7

\* np.pad(part, ((0, n), (0, 0)), 'constant', constant_values=0)
Pad(part, n) == part \o Zeros(n)

\* Mutant: the loop exit taken one frame early (`>=` for `>`).
WindowBreakEarly(end, time) == end >= time

\* The loop exit `if end > time: break` of the sliding window.
WindowBreak(end, time) == end > time

\* for begin in np.arange(0, time, 100): ... if end > time: break ... append
RECURSIVE WindowLoop(_, _, _, _)
WindowLoop(mel, bs, begin, acc) ==
    IF begin >= Len(mel) THEN acc
    ELSE IF WindowBreak(begin + bs, Len(mel)) THEN acc
    ELSE WindowLoop(mel, bs, begin + Stride,
                    Append(acc, [begin |-> begin,
                                 part |-> SubSeq(mel, begin + 1, begin + bs)]))

\* Mutant: the zero rows put in front of the features instead of behind them.
ShortBlockLeading(mel, bs) == Zeros(bs - Len(mel)) \o mel

\* The padded single block of the branch `if time <= block_size`.
ShortBlock(mel, bs) == Pad(mel, bs - Len(mel))

\* Blocks emitted for one utterance, each with its begin offset.
Blocks(mel, bs) ==
    IF Len(mel) <= bs
    THEN <<[begin |-> 0, part |-> ShortBlock(mel, bs)]>>
    ELSE WindowLoop(mel, bs, 0, <<>>)

append_idx(idx_list, dc, time, bs) ==
    IF time <= bs THEN Append(idx_list, dc - 1) ELSE Append(idx_list, dc - 1)

\* The locals of load_iemocap_data before the session loop.
NoStats == [max |-> 0, min |-> 0]

\* Every value of the blocks of a split.
BlockValues(blocks) == UNION {Range(blocks[i]) : i \in 1..Len(blocks)}

\* np.min
SetMin(S) == CHOOSE x \in S : \A y \in S : x <= y

\* (x - min1) / (max1 - min1), as its numerator over max1 - min1.
NormalizeRaw(x, lo) == x

Normalize(x, lo) == x - lo

NormalizeBlocks(blocks, lo) ==
    [i \in 1..Len(blocks) |-> [r \in 1..Len(blocks[i]) |-> Normalize(blocks[i][r], lo)]]

\* data_wav_list_1[i] for i in idx
Gather(list, idx) == [i \in 1..Len(idx) |-> list[idx[i] + 1]]

\* assert num_wav_files == len(emotions_cat)
CountsMatchLoose(num_wav_files, num_emotions) == num_wav_files <= num_emotions

CountsMatch(num_wav_files, num_emotions) == num_wav_files = num_emotions

IeLocalsInit ==
    /\ ie_session = 0
    /\ ie_left = 0
    /\ ie_utts = 0
    /\ data_wav_list_1 = <<>>
    /\ labels_cat_list = <<>>
    /\ data_count = 0
    /\ train_idx = <<>>
    /\ val_idx = <<>>
    /\ test_idx = <<>>
    /\ train_data_wav_1 = <<>>
    /\ val_data_wav_1 = <<>>
    /\ test_data_wav_1 = <<>>
    /\ ie_stats = NoStats
    /\ train_data_wav = <<>>
    /\ val_data_wav = <<>>
    /\ test_data_wav = <<>>
    /\ ie_saved = FALSE
    /\ ie_mismatch = FALSE
    /\ utt_log = <<>>
    /\ win_begin = <<>>

IeIdle ==
    /\ ie_pc = "idle"
    /\ block_size = 0
    /\ IeLocalsInit

IeInit ==
    /\ ie_pc = "scan"
    /\ block_size \in BlockSizes
    /\ IeLocalsInit

\* One dialog directory: skipped unless its name contains 'impro'; otherwise the
\* annotations are read, the .wav files listed and the two counts asserted equal.
\* A failed assertion leaves the function.
StartDialog ==
    /\ ie_pc = "scan"
    /\ \E impro \in BOOLEAN :
          IF ~impro
          THEN UNCHANGED <<ie_pc, ie_session, ie_left, ie_utts, ie_mismatch>>
          ELSE \E s \in Sessions, num_wav_files \in 0..(MaxUtts - ie_utts) :
               \E num_emotions \in {num_wav_files, num_wav_files + 1} :
                  IF ~CountsMatch(num_wav_files, num_emotions)
                  THEN /\ ie_pc' = "aborted"
                       /\ ie_mismatch' = (ie_mismatch \/ num_wav_files # num_emotions)
                       /\ UNCHANGED <<ie_session, ie_left, ie_utts>>
                  ELSE /\ ie_session' = IF num_wav_files = 0 THEN ie_session ELSE s
                       /\ ie_left' = num_wav_files
                       /\ ie_pc' = IF num_wav_files = 0 THEN "scan" ELSE "dialog"
                       /\ ie_mismatch' = (ie_mismatch \/ num_wav_files # num_emotions)
                       /\ UNCHANGED ie_utts
    /\ UNCHANGED <<block_size, data_wav_list_1, labels_cat_list, data_count,
                   train_idx, val_idx, test_idx, utt_log, win_begin,
                   train_data_wav_1, val_data_wav_1, test_data_wav_1,
                   ie_stats, train_data_wav, val_data_wav, test_data_wav, ie_saved>>
    /\ UNCHANGED ie_others

\* One .wav file of the current dialog: window it, then index it.
ProcessWav ==
    /\ ie_pc = "dialog"
    /\ \E marker \in Markers, time \in Lengths(block_size) :
        LET u == ie_utts + 1
            blocks == Blocks(mel_spec(u, time), block_size)
            dc == data_count + Len(blocks)
        IN  /\ data_wav_list_1' = data_wav_list_1 \o [k \in 1..Len(blocks) |-> blocks[k].part]
            /\ labels_cat_list' = labels_cat_list \o [k \in 1..Len(blocks) |-> emotions_cat(u)]
            /\ win_begin' = win_begin \o [k \in 1..Len(blocks) |-> blocks[k].begin]
            /\ data_count' = dc
            /\ utt_log' = Append(utt_log, [session |-> ie_session, marker |-> marker,
                                           time |-> time, first |-> data_count,
                                           n |-> Len(blocks)])
            /\ IF ie_session \in session_set_train
               THEN /\ train_idx' = append_idx(train_idx, dc, time, block_size)
                    /\ UNCHANGED <<val_idx, test_idx>>
               ELSE IF ie_session \in session_set_test
               THEN IF marker = "M"
                    THEN /\ test_idx' = append_idx(test_idx, dc, time, block_size)
                         /\ UNCHANGED <<train_idx, val_idx>>
                    ELSE /\ val_idx' = append_idx(val_idx, dc, time, block_size)
                         /\ UNCHANGED <<train_idx, test_idx>>
               ELSE UNCHANGED <<train_idx, val_idx, test_idx>>
            /\ ie_utts' = u
            /\ ie_left' = ie_left - 1
            /\ ie_pc' = IF ie_left = 1 THEN "scan" ELSE "dialog"
    /\ UNCHANGED <<block_size, ie_session, train_data_wav_1, val_data_wav_1, test_data_wav_1,
                   ie_stats, train_data_wav, val_data_wav, test_data_wav, ie_saved, ie_mismatch>>
    /\ UNCHANGED ie_others

\* After the last session (lines 320-410): gather the blocks of each split by its
\* index list, take max1 and min1 of the training blocks, normalise the three
\* splits with them and write the archives and the stats file.  np.max raises
\* on an empty training split.
GatherSplits ==
    /\ ie_pc = "scan"
    /\ train_data_wav_1' = Gather(data_wav_list_1, train_idx)
    /\ val_data_wav_1' = Gather(data_wav_list_1, val_idx)
    /\ test_data_wav_1' = Gather(data_wav_list_1, test_idx)
    /\ IF train_idx = <<>>
       THEN /\ ie_pc' = "failed"
            /\ UNCHANGED <<ie_stats, train_data_wav, val_data_wav, test_data_wav, ie_saved>>
       ELSE LET max1 == SetMax(BlockValues(Gather(data_wav_list_1, train_idx)))
                min1 == SetMin(BlockValues(Gather(data_wav_list_1, train_idx)))
            IN /\ ie_stats' = [max |-> max1, min |-> min1]
               /\ train_data_wav' = NormalizeBlocks(Gather(data_wav_list_1, train_idx), min1)
               /\ val_data_wav' = NormalizeBlocks(Gather(data_wav_list_1, val_idx), min1)
               /\ test_data_wav' = NormalizeBlocks(Gather(data_wav_list_1, test_idx), min1)
               /\ ie_saved' = TRUE
               /\ ie_pc' = "built"
    /\ UNCHANGED <<block_size, ie_session, ie_left, ie_utts, data_wav_list_1, labels_cat_list,
                   data_count, train_idx, val_idx, test_idx, ie_mismatch, utt_log, win_begin>>
    /\ UNCHANGED ie_others

IeNext == StartDialog \/ ProcessWav \/ GatherSplits

(***************************************************************************)
(* Claims about the windower                                               *)
(***************************************************************************)
\* 1-based positions in data_wav_list_1 of the blocks of the i-th .wav file.
BlocksOf(i) == (utt_log[i].first + 1)..(utt_log[i].first + utt_log[i].n)

\* C1: every utterance longer than block_size yields exactly
\* floor((T - block_size) / 100) + 1 blocks, at begin offsets 0, 100, 200, ...,
\* each the block_size rows from its offset, and no block ends after row T.
C1_LongUtteranceBlocks ==
    \A i \in 1..Len(utt_log) :
        LET T == utt_log[i].time IN
        T > block_size =>
            /\ utt_log[i].n = (T - block_size) \div Stride + 1
            /\ \A k \in 0..(utt_log[i].n - 1) :
                 LET w == utt_log[i].first + k + 1 IN
                 /\ win_begin[w] = Stride * k
                 /\ win_begin[w] + block_size <= T
                 /\ Len(data_wav_list_1[w]) = block_size
                 /\ \A r \in 1..block_size :
                        data_wav_list_1[w][r] = mel_spec(i, T)[win_begin[w] + r]

\* C1 witness: an utterance of block_size + Stride frames was cut into two blocks.
C1_Witness ==
    \E i \in 1..Len(utt_log) :
        /\ utt_log[i].time = block_size + Stride
        /\ utt_log[i].n = 2

\* C2: every utterance of at most block_size frames yields exactly one block of
\* block_size rows: its T feature rows followed by block_size - T zero rows.
C2_ShortUtteranceBlock ==
    \A i \in 1..Len(utt_log) :
        LET T == utt_log[i].time
            w == utt_log[i].first + 1
        IN
        T <= block_size =>
            /\ utt_log[i].n = 1
            /\ Len(data_wav_list_1[w]) = block_size
            /\ \A r \in 1..T : data_wav_list_1[w][r] = mel_spec(i, T)[r]
            /\ \A r \in (T + 1)..block_size : data_wav_list_1[w][r] = 0

\* C2 witness: an utterance one frame short of block_size was padded, and an
\* utterance of exactly block_size frames was emitted as one block.
C2_Witness ==
    /\ \E i \in 1..Len(utt_log) : utt_log[i].time = block_size - 1 /\ utt_log[i].n = 1
    /\ \E i \in 1..Len(utt_log) : utt_log[i].time = block_size /\ utt_log[i].n = 1

\* The split the rule assigns to the windows of the i-th .wav file.
SplitOf(i) ==
    IF utt_log[i].session \in session_set_train THEN "train"
    ELSE IF utt_log[i].marker = "M" THEN "test"
    ELSE "val"

\* C3 (as claimed): every emitted window is in exactly one of the three index
\* lists, the one its session and role marker select; the lists are pairwise
\* disjoint and together hold every emitted window.
C3_EveryWindowInItsSplit ==
    /\ \A i \in 1..Len(utt_log) : \A w \in BlocksOf(i) :
          /\ (w - 1 \in Range(train_idx)) <=> (SplitOf(i) = "train")
          /\ (w - 1 \in Range(test_idx)) <=> (SplitOf(i) = "test")
          /\ (w - 1 \in Range(val_idx)) <=> (SplitOf(i) = "val")
    /\ Range(train_idx) \cap Range(val_idx) = {}
    /\ Range(train_idx) \cap Range(test_idx) = {}
    /\ Range(val_idx) \cap Range(test_idx) = {}
    /\ Range(train_idx) \cup Range(val_idx) \cup Range(test_idx) = 0..(data_count - 1)

\* C16: a dialog whose annotation count differs from its .wav count ends the load
\* with the failed assertion and only such a dialog does; the step that aborts
\* windows no utterance and writes no file, and nothing runs after it.
C16_MismatchAborts ==
    /\ []((ie_mismatch <=> ie_pc = "aborted") /\ (ie_pc = "aborted" => ~ie_saved))
    /\ [][ie_pc' = "aborted" =>
            /\ utt_log' = utt_log
            /\ data_wav_list_1' = data_wav_list_1
            /\ data_count' = data_count
            /\ <<train_idx', val_idx', test_idx'>> = <<train_idx, val_idx, test_idx>>
            /\ ie_saved' = FALSE]_vars
    /\ [][ie_pc # "aborted"]_vars

\* C16 witness: the load was aborted by a mismatch after an earlier dialog had
\* been windowed; no file is written.
C16_Witness ==
    /\ ie_pc = "aborted"
    /\ ie_mismatch
    /\ utt_log # <<>>
    /\ data_count >= 1
    /\ ~ie_saved

\* The normalised values of a split lie in [0, 1].
InUnitRange(blocks) ==
    \A i \in 1..Len(blocks) : \A r \in 1..Len(blocks[i]) :
        0 <= blocks[i][r] /\ blocks[i][r] <= ie_stats.max - ie_stats.min

\* A split is its gathered blocks normalised with the statistics.
NormalisedWithStats(norm, raw) ==
    /\ Len(norm) = Len(raw)
    /\ \A i \in 1..Len(raw) :
          /\ Len(norm[i]) = Len(raw[i])
          /\ \A r \in 1..Len(raw[i]) : norm[i][r] = raw[i][r] - ie_stats.min

\* C19 as claimed: the normalised values of every block of every split lie in [0, 1].
C19_AllInUnitRange ==
    ie_pc = "built" =>
        /\ InUnitRange(train_data_wav)
        /\ InUnitRange(val_data_wav)
        /\ InUnitRange(test_data_wav)

\* C19: the statistics are the maximum and minimum of the training blocks, the
\* three splits are normalised with these same statistics, and the normalised
\* values of the training blocks lie in [0, 1].
C19_TrainStatistics ==
    ie_pc = "built" =>
        /\ ie_stats.max \in BlockValues(train_data_wav_1)
        /\ ie_stats.min \in BlockValues(train_data_wav_1)
        /\ \A v \in BlockValues(train_data_wav_1) : ie_stats.min <= v /\ v <= ie_stats.max
        /\ NormalisedWithStats(train_data_wav, train_data_wav_1)
        /\ NormalisedWithStats(val_data_wav, val_data_wav_1)
        /\ NormalisedWithStats(test_data_wav, test_data_wav_1)
        /\ ie_stats.max > ie_stats.min => InUnitRange(train_data_wav)

\* C19 witness: a built data set whose validation split has a value outside the
\* range of the training blocks.
C19_Witness ==
    /\ ie_pc = "built"
    /\ train_data_wav # <<>>
    /\ val_data_wav # <<>>
    /\ ie_stats.max > ie_stats.min
    /\ ~InUnitRange(val_data_wav)

(***************************************************************************)
(* Processor.extend_word_seq: the word-to-frame grid                       *)
(* Times are integer ticks; (t - start) / frame_duration is the exact      *)
(* quotient (t - start) * n_frames / (end - start).                        *)
(***************************************************************************)
\* Bounds of the model.
MaxFrames == 4        \* largest n_frames
MaxTime == 3          \* latest tick of a word start or of end_time
MaxWords == 2         \* longest word list

\* The language model: reserved tokens, then the words of the vocabulary.
PAD_token == 0
SOS_token == 1
EOS_token == 2
UNK_token == 3
word2index == [w \in {"a", "b"} |-> IF w = "a" THEN 4 ELSE 5]

\* lang.get_word_index(word)
get_word_index(word) ==
    IF word \in DOMAIN word2index THEN word2index[word] ELSE UNK_token

\* Word events tried: [word, start]; a start may lie before start_time or at/after end_time.
WordEvents == [word : {"a", "b"}, start : 0..MaxTime]

RECURSIVE SeqsUpTo(_, _)
SeqsUpTo(S, n) ==
    IF n = 0 THEN {<<>>}
    ELSE LET shorter == SeqsUpTo(S, n - 1)
         IN shorter \cup {Append(q, x) : q \in {r \in shorter : Len(r) = n - 1}, x \in S}

\* if end_time is None: end_time = aux_info['end_time']
EffectiveEnd(end_time, aux_info) ==
    IF end_time = None THEN aux_info.end_time ELSE end_time

\* max(0, int(np.floor((word[1] - aux_info['start_time']) / frame_duration)))
\* with frame_duration = (end_time - aux_info['start_time']) / n_frames
FrameIdx(start, aux_info, end, n_frames) ==
    Max(0, ((start - aux_info.start_time) * n_frames) \div (end - aux_info.start_time))

\* Mutant: an earlier word at the same frame is kept (first write wins).
WriteWordKeepFirst(arr, idx, word) ==
    IF arr[idx + 1] # 0 THEN arr ELSE [arr EXCEPT ![idx + 1] = get_word_index(word)]

\* extended_word_indices[idx] = lang.get_word_index(word)
WriteWord(arr, idx, word) == [arr EXCEPT ![idx + 1] = get_word_index(word)]

\* The loop of the branch `else` (word timing kept), from word k on.
RECURSIVE TimedLoop(_, _, _, _, _, _)
TimedLoop(words, k, aux_info, end, n_frames, arr) ==
    IF k > Len(words) THEN arr
    ELSE LET idx == FrameIdx(words[k].start, aux_info, end, n_frames)
         IN TimedLoop(words, k + 1, aux_info, end, n_frames,
                      IF idx < n_frames THEN WriteWord(arr, idx, words[k].word) ELSE arr)

\* n_words: the words whose frame index is below n_frames.
RECURSIVE CountInRange(_, _, _, _, _)
CountInRange(words, k, aux_info, end, n_frames) ==
    IF k > Len(words) THEN 0
    ELSE (IF FrameIdx(words[k].start, aux_info, end, n_frames) < n_frames THEN 1 ELSE 0)
         + CountInRange(words, k + 1, aux_info, end, n_frames)

\* for word_idx in range(n_words): arr[(word_idx + 1) * space] = index of words[word_idx]
RECURSIVE SpacedLoop(_, _, _, _, _)
SpacedLoop(words, word_idx, n_words, space, arr) ==
    IF word_idx >= n_words THEN arr
    ELSE SpacedLoop(words, word_idx + 1, n_words, space,
                    WriteWord(arr, (word_idx + 1) * space, words[word_idx + 1].word))

extend_word_seq(n_frames, remove_word_timing, words, aux_info, end_time) ==
    LET end == EffectiveEnd(end_time, aux_info)
        zeros == Zeros(n_frames)
    IN IF remove_word_timing
       THEN LET n_words == CountInRange(words, 1, aux_info, end, n_frames)
                space == n_frames \div (n_words + 1)
            IN SpacedLoop(words, 0, n_words, space, zeros)
       ELSE TimedLoop(words, 1, aux_info, end, n_frames, zeros)

AlIdle ==
    /\ al_pc = "idle"
    /\ al_n_frames = 0
    /\ al_remove_word_timing = FALSE
    /\ al_words = <<>>
    /\ al_aux_info = [start_time |-> 0, end_time |-> 0]
    /\ al_end_time = None
    /\ al_result = <<>>

\* The arguments of one call: end_time > start_time, so frame_duration > 0.
AlInit ==
    /\ al_pc = "call"
    /\ al_n_frames \in 1..MaxFrames
    /\ al_remove_word_timing \in BOOLEAN
    /\ al_words \in SeqsUpTo(WordEvents, MaxWords)
    /\ al_aux_info \in {a \in [start_time : 0..1, end_time : 1..MaxTime] :
                            a.end_time > a.start_time}
    /\ al_end_time \in {None} \cup 2..(MaxTime - 1)
    /\ al_end_time # None => al_end_time > al_aux_info.start_time
    /\ al_result = <<>>

ExtendWordSeq ==
    /\ al_pc = "call"
    /\ al_result' = extend_word_seq(al_n_frames, al_remove_word_timing, al_words,
                                    al_aux_info, al_end_time)
    /\ al_pc' = "done"
    /\ UNCHANGED <<al_n_frames, al_remove_word_timing, al_words, al_aux_info, al_end_time>>
    /\ UNCHANGED al_others

AlNext == ExtendWordSeq

(***************************************************************************)
(* Claims about extend_word_seq                                            *)
(***************************************************************************)
\* The frame index the specification gives a word start, on the call's arguments:
\* floor((start - start_time) / frame_duration), clamped to >= 0.
AlClaimIdx(start) ==
    LET st == al_aux_info.start_time
        q == ((start - st) * al_n_frames) \div (EffectiveEnd(al_end_time, al_aux_info) - st)
    IN IF q < 0 THEN 0 ELSE q


\* C4: with word timing kept the result has n_frames entries; position p holds the
\* vocabulary index of the last word of the list whose frame index is p, and the
\* empty token 0 when no word maps to p (all zeros when no word is in range).
C4_TimedPlacement ==
    (al_pc = "done" /\ ~al_remove_word_timing) =>
        /\ Len(al_result) = al_n_frames
        /\ \A p \in 0..(al_n_frames - 1) :
             LET at == {k \in 1..Len(al_words) : AlClaimIdx(al_words[k].start) = p}
             IN al_result[p + 1] =
                    IF at = {} THEN PAD_token
                    ELSE get_word_index(al_words[SetMax(at)].word)

\* C4 witness: two different words fell on the same frame, the earlier one
\* starting before start_time (its index clamped to 0).
C4_Witness ==
    /\ al_pc = "done"
    /\ ~al_remove_word_timing
    /\ \E k1, k2 \in 1..Len(al_words) :
          /\ k1 < k2
          /\ al_words[k1].word # al_words[k2].word
          /\ AlClaimIdx(al_words[k1].start) = AlClaimIdx(al_words[k2].start)
          /\ AlClaimIdx(al_words[k1].start) < al_n_frames
          /\ al_words[k1].start < al_aux_info.start_time

\* The words of the call whose frame index is below n_frames, in list order.
AlInRangeWords == SelectSeq(al_words, LAMBDA w : AlClaimIdx(w.start) < al_n_frames)

\* C5 (as claimed): with word timing removed, the k-th in-range word (k from 0, in
\* list order) is at position (k + 1) * space, space = n_frames // (word_count + 1),
\* for every word list; every other position holds the empty token.
C5_SpacedInRangeWords ==
    (al_pc = "done" /\ al_remove_word_timing) =>
        LET inr == AlInRangeWords
            space == al_n_frames \div (Len(inr) + 1)
        IN /\ Len(al_result) = al_n_frames
           /\ \A p \in 0..(al_n_frames - 1) :
                LET at == {k \in 0..(Len(inr) - 1) : (k + 1) * space = p}
                IN al_result[p + 1] =
                       IF at = {} THEN PAD_token
                       ELSE get_word_index(inr[SetMax(at) + 1].word)

(***************************************************************************)
(* Processor.render_clip: sliding-window synthesis                         *)
(* Times are exact fractions of a second.  With L = len(clip_audio),       *)
(* sr = sample_rate, N = n_poses, P = n_pre_poses:                         *)
(*   clip_length = L / sr, unit_time = un / ud, stride_time = (N - P)/fps. *)
(* A pose frame is one number; the generator's raw frames are multiples of *)
(* (P + 1)^num_subdivisions, so that every blended frame is an integer.    *)
(***************************************************************************)
\* Bounds of the model.
MaxPoses == 5         \* largest n_poses
MaxSamples == 13      \* longest clip, in audio samples
MaxWindows == 5       \* clips needing more windows are left out
MaxUnit == 4          \* the unit_time passed explicitly, in seconds

\* motion_resampling_framerate and sample_rate values tried.
FrameRates == {1, 2}
SampleRates == {1}

\* unit_time as a fraction <<un, ud>>: the argument, or n_poses / fps when None.
UnitTime(cfg) ==
    IF cfg.unit_time = None THEN <<cfg.n_poses, cfg.fps>> ELSE <<cfg.unit_time, 1>>

\* Mutant: the window count rounded down instead of up.
NumSubdivisionsFloor(cfg) ==
    LET un == UnitTime(cfg)[1]
        ud == UnitTime(cfg)[2]
    IN IF cfg.audio_len * ud < un * cfg.sample_rate THEN 1
       ELSE Floor((cfg.audio_len * ud - un * cfg.sample_rate) * cfg.fps,
                  cfg.sample_rate * ud * (cfg.n_poses - cfg.n_pre_poses))

\* if clip_length < unit_time: 1 else: math.ceil((clip_length - unit_time) / stride_time)
NumSubdivisions(cfg) ==
    LET un == UnitTime(cfg)[1]
        ud == UnitTime(cfg)[2]
    IN IF cfg.audio_len * ud < un * cfg.sample_rate THEN 1
       ELSE Ceil((cfg.audio_len * ud - un * cfg.sample_rate) * cfg.fps,
                 cfg.sample_rate * ud * (cfg.n_poses - cfg.n_pre_poses))

\* audio_sample_length = int(unit_time * sample_rate)
AudioSampleLength(cfg) == Floor(UnitTime(cfg)[1] * cfg.sample_rate, UnitTime(cfg)[2])

\* audio_start = math.floor(sub_div_start_time / clip_length * len(clip_audio))
AudioStart(cfg, i) == Floor(i * (cfg.n_poses - cfg.n_pre_poses) * cfg.sample_rate, cfg.fps)

\* len(clip_audio[audio_start:audio_end])
SliceLen(len, from, to) == Max(0, Min(len, to) - Min(len, from))

\* Clips tried: n_pre_poses >= 1 frames of overlap, stride > 0.
RcConfigs ==
    {c \in [n_poses : 2..MaxPoses, n_pre_poses : 1..(MaxPoses - 1), fps : FrameRates,
            sample_rate : SampleRates, audio_len : 1..MaxSamples,
            unit_time : {None, MaxUnit}] :
        /\ c.n_pre_poses < c.n_poses
        /\ NumSubdivisions(c) <= MaxWindows}

\* One generator call: n_poses frames.  The generator is opaque; the outputs tried
\* are flat at 1, flat at 5, and a ramp 2, 3, 4, ...
GenShapes == {<<1, 0>>, <<5, 0>>, <<2, 1>>}

\* The outputs tried for window idx: any shape for the first MaxFreeWindows
\* windows, the ramp for the later ones.
MaxFreeWindows == 2

GenShapesAt(idx) == IF idx < MaxFreeWindows THEN GenShapes ELSE {<<2, 1>>}

GenScale(cfg) == Pow(cfg.n_pre_poses + 1, MaxWindows + 1)

GenOut(cfg, g) == [j \in 1..cfg.n_poses |-> (g[1] + g[2] * (j - 1)) * GenScale(cfg)]

\* last_poses = out_list[-1][-n_pre_poses:]
LastPoses(seq, n_pre) == SubSeq(seq, Max(1, Len(seq) - n_pre + 1), Len(seq))

\* The trimodal generator's output in the same call: another of the shapes.
TrimodalShape(g) ==
    IF g = <<1, 0>> THEN <<5, 0>> ELSE IF g = <<5, 0>> THEN <<2, 1>> ELSE <<1, 0>>

\* target_dir_vec, the clip's own poses: at least n_poses frames, none of them a
\* frame the generators return.
TargetDirVec(cfg) == [j \in 1..cfg.n_poses |-> -j * GenScale(cfg)]

\* self.device: CUDA when available, else the CPU.
Devices == {"cuda", "cpu"}

\* Lines 1174-1188: torch.zeros((1, n_frames, pose_dim + 1)) with the seed poses
\* and their indicator bit in the first n_pre_poses frames.
SeedPreSeq(cfg) ==
    [j \in 1..cfg.n_poses |->
        IF j <= cfg.n_pre_poses
        THEN [pose |-> TargetDirVec(cfg)[j], bit |-> 1]
        ELSE [pose |-> 0, bit |-> 0]]

\* Lines 1277-1285: the first n_pre_poses frames overwritten with the last
\* n_pre_poses frames of the latest output tensor, the indicator bit set.
ConstrainPreSeq(pre, tensor, n_pre) ==
    [j \in 1..Len(pre) |->
        IF j <= n_pre
        THEN [pose |-> LastPoses(tensor, n_pre)[j], bit |-> 1]
        ELSE pre[j]]

\* out_seq = out_dir_vec[0, :, :].data.cpu().numpy(): on the CPU the array is a
\* view of the tensor, and the smoothing of out_seq writes into the tensor; from
\* another device it is a copy.
TensorAfterSmoothing(device, raw, smoothed) == IF device = "cpu" THEN smoothed ELSE raw

\* out_list[-1] = out_list[-1][:-n_pre_poses]
DropLast(seq, n_pre) == SubSeq(seq, 1, Len(seq) - n_pre)

\* Mutant: the weights of the two frames exchanged.
BlendFrameSwapped(prev_pose, next_pose, j, n) ==
    (prev_pose * (j + 1) + next_pose * (n - j)) \div (n + 1)

\* prev_pose * (n - j) / (n + 1) + next_pose * (j + 1) / (n + 1)
BlendFrame(prev_pose, next_pose, j, n) ==
    (prev_pose * (n - j) + next_pose * (j + 1)) \div (n + 1)

\* for j in range(len(last_poses)): out_seq[j] = blend(last_poses[j], out_seq[j])
Blend(last_poses, out_seq) ==
    [j \in 1..Len(out_seq) |->
        IF j <= Len(last_poses)
        THEN BlendFrame(last_poses[j], out_seq[j], j - 1, Len(last_poses))
        ELSE out_seq[j]]

\* Mutant: the previous window keeps its trailing frames.
StitchKeepTail(list, out_seq, n_pre) ==
    IF list = <<>> THEN <<out_seq>>
    ELSE Append(list, Blend(LastPoses(list[Len(list)], n_pre), out_seq))

\* The smoothing step and the append of one window's frames.
Stitch(list, out_seq, n_pre) ==
    IF list = <<>> THEN <<out_seq>>
    ELSE Append([list EXCEPT ![Len(list)] = DropLast(list[Len(list)], n_pre)],
                Blend(LastPoses(list[Len(list)], n_pre), out_seq))

\* data_params['clip_duration_range'], as generate_gestures_by_dataset defaults it.
clip_duration_range == <<5, 12>>

\* The calls tried: a clip below, within and above the duration range with the
\* check on, and clips below and within it with the check off.
RcCalls ==
    {[check_duration |-> TRUE, clip_time |-> <<1, 5>>, fade_out |-> FALSE],
     [check_duration |-> TRUE, clip_time |-> <<1, 7>>, fade_out |-> TRUE],
     [check_duration |-> TRUE, clip_time |-> <<0, 13>>, fade_out |-> TRUE],
     [check_duration |-> FALSE, clip_time |-> <<1, 5>>, fade_out |-> FALSE]}

\* The words of a clip that starts at start: times are absolute.
ClipWords(start) == <<[word |-> "a", start |-> start + 1, end |-> start + 2]>>

\* Lines 1158-1161: the clip's duration is outside the range.
DurationNeverOutOfRange(call) == FALSE

DurationOutOfRange(call) ==
    LET clip_duration == call.clip_time[2] - call.clip_time[1]
    IN clip_duration < clip_duration_range[1] \/ clip_duration > clip_duration_range[2]

\* Lines 1165-1167: the word times made relative to the clip's start.
ShiftWords(words, start) ==
    [i \in 1..Len(words) |-> [word |-> words[i].word, start |-> words[i].start - start,
                              end |-> words[i].end - start]]

\* Lines 1237-1239: the padding recorded for a window.
EndPadding(in_len, length, idx, n, prev) ==
    IF in_len < length /\ idx = n - 1 THEN length - in_len ELSE prev

\* Lines 1341-1343: len(out_dir_vec) - int(end_padding_duration / audio_sr * fps)
StartFrameNoPadding(len, padding, cfg) == len

StartFrame(len, padding, cfg) == len - (padding * cfg.fps) \div cfg.sample_rate

\* A Python slice bound i on a sequence of len items, as an offset from its start.
PyIndex(i, len) == IF i < 0 THEN Max(0, i + len) ELSE Min(i, len)

\* A frame computed by np.polyfit / np.poly1d: not a frame of a generator, of the
\* target or the neutral pose.
Fitted == -1

\* Mutant: exactly the final n_smooth frames are zeroed.
FadeZeroFromTail(end, n_smooth, len) == len - n_smooth

\* out_dir_vec[end_frame - n_smooth:] = np.zeros(self.pose_dim): the slice's start.
FadeZeroFrom(end, n_smooth, len) == end - n_smooth

\* Lines 1341-1374 on one output array vec.
FadeOut(vec, start, n_smooth) ==
    LET end == start + n_smooth * 2
        padded == IF Len(vec) < end THEN vec \o [j \in 1..(end - Len(vec)) |-> 0] ELSE vec
        len == Len(padded)
        zero_from == PyIndex(FadeZeroFrom(end, n_smooth, len), len)
        zeroed == [j \in 1..len |-> IF j > zero_from THEN 0 ELSE padded[j]]
        from == PyIndex(start, len)
        to == PyIndex(end, len)
    IN [end_frame |-> end,
        zeroed |-> (zero_from + 1)..len,
        smoothed |-> (from + 1)..to,
        out |-> [j \in 1..len |-> IF from < j /\ j <= to THEN Fitted ELSE zeroed[j]]]

RcLocalsInit ==
    /\ num_subdivisions = 0
    /\ audio_sample_length = 0
    /\ sub_div_idx = 0
    /\ end_padding_duration = 0
    /\ out_list = <<>>
    /\ out_dir_vec = <<>>
    /\ rc_raw = <<>>
    /\ start_frame = <<>>
    /\ rc_in = <<>>
    /\ pre_seq = <<>>
    /\ pre_seq_trimodal = <<>>
    /\ out_list_trimodal = <<>>
    /\ out_dir_vec_trimodal = <<>>
    /\ rc_raw_trimodal = <<>>
    /\ end_frame = <<>>
    /\ rc_zeroed = {}
    /\ rc_smoothed = {}

RcIdle ==
    /\ rc_pc = "idle"
    /\ rc_cfg = [n_poses |-> 0, n_pre_poses |-> 0, fps |-> 0, sample_rate |-> 0,
                 audio_len |-> 0, unit_time |-> None]
    /\ rc_call = [check_duration |-> FALSE, clip_time |-> <<0, 0>>, fade_out |-> FALSE]
    /\ clip_words = <<>>
    /\ rc_skipped = FALSE
    /\ rc_device = "cuda"
    /\ RcLocalsInit

RcInit ==
    /\ rc_pc = "init"
    /\ rc_cfg \in RcConfigs
    /\ rc_call \in RcCalls
    /\ clip_words = ClipWords(rc_call.clip_time[1])
    /\ rc_skipped = FALSE
    /\ rc_device \in Devices
    /\ RcLocalsInit

\* Lines 1157-1225: the duration check, which returns (None, None, None); then the
\* shift of the word times, the window count and the audio length of a window.
RcSetup ==
    /\ rc_pc = "init"
    /\ IF rc_call.check_duration /\ DurationOutOfRange(rc_call)
       THEN /\ rc_pc' = "skipped"
            /\ UNCHANGED <<clip_words, num_subdivisions, audio_sample_length,
                           end_padding_duration, sub_div_idx, pre_seq, pre_seq_trimodal>>
       ELSE /\ clip_words' = ShiftWords(clip_words, rc_call.clip_time[1])
            /\ pre_seq_trimodal' = SeedPreSeq(rc_cfg)
            /\ pre_seq' = SeedPreSeq(rc_cfg)
            /\ num_subdivisions' = NumSubdivisions(rc_cfg)
            /\ audio_sample_length' = AudioSampleLength(rc_cfg)
            /\ end_padding_duration' = 0
            /\ sub_div_idx' = 0
            /\ rc_pc' = "window"
    /\ UNCHANGED <<rc_cfg, out_list, out_dir_vec, rc_raw, rc_call, start_frame, rc_in,
                   rc_skipped, rc_device, out_list_trimodal, out_dir_vec_trimodal,
                   rc_raw_trimodal, end_frame, rc_zeroed, rc_smoothed>>
    /\ UNCHANGED rc_others

\* One iteration of the window loop: slice and pad the audio, constrain the
\* pre-sequences when a window came before, call the two generators, smooth the
\* transition from the previous window, append.
RcWindow ==
    /\ rc_pc = "window"
    /\ sub_div_idx < num_subdivisions
    /\ \E g \in GenShapesAt(sub_div_idx) :
        LET audio_start == AudioStart(rc_cfg, sub_div_idx)
            in_len == SliceLen(rc_cfg.audio_len, audio_start, audio_start + audio_sample_length)
            out_seq == GenOut(rc_cfg, g)
            out_seq_trimodal == GenOut(rc_cfg, TrimodalShape(g))
        IN /\ pre_seq_trimodal' =
                 IF sub_div_idx > 0
                 THEN ConstrainPreSeq(pre_seq_trimodal, out_dir_vec_trimodal,
                                      rc_cfg.n_pre_poses)
                 ELSE pre_seq_trimodal
           /\ pre_seq' =
                 IF sub_div_idx > 0
                 THEN ConstrainPreSeq(pre_seq, out_dir_vec, rc_cfg.n_pre_poses)
                 ELSE pre_seq
           /\ rc_raw_trimodal' = Append(rc_raw_trimodal, out_seq_trimodal)
           /\ out_list_trimodal' = Stitch(out_list_trimodal, out_seq_trimodal,
                                          rc_cfg.n_pre_poses)
           /\ out_dir_vec_trimodal' =
                 TensorAfterSmoothing(rc_device, out_seq_trimodal,
                     Stitch(out_list_trimodal, out_seq_trimodal, rc_cfg.n_pre_poses)
                         [Len(out_list_trimodal) + 1])
           /\ out_dir_vec' =
                 TensorAfterSmoothing(rc_device, out_seq,
                     Stitch(out_list, out_seq, rc_cfg.n_pre_poses)[Len(out_list) + 1])
           /\ end_padding_duration' =
                 EndPadding(in_len, audio_sample_length, sub_div_idx, num_subdivisions,
                            end_padding_duration)
           /\ rc_in' = Append(rc_in, [slice |-> in_len,
                                      pad |-> IF in_len < audio_sample_length
                                              THEN audio_sample_length - in_len ELSE 0])
           /\ rc_raw' = Append(rc_raw, out_seq)
           /\ out_list' = Stitch(out_list, out_seq, rc_cfg.n_pre_poses)
    /\ sub_div_idx' = sub_div_idx + 1
    /\ UNCHANGED <<rc_pc, rc_cfg, num_subdivisions, audio_sample_length,
                   rc_call, clip_words, start_frame, rc_skipped, rc_device, end_frame,
                   rc_zeroed, rc_smoothed>>
    /\ UNCHANGED rc_others

\* After the loop: np.vstack(out_list), which raises on an empty list, and the
\* start frame of the fade-out.
RcAggregate ==
    /\ rc_pc = "window"
    /\ sub_div_idx >= num_subdivisions
    /\ IF out_list = <<>>
       THEN rc_pc' = "error" /\ UNCHANGED <<out_dir_vec, out_dir_vec_trimodal, start_frame>>
       ELSE /\ rc_pc' = "stitched"
            /\ out_dir_vec_trimodal' = VStack(out_list_trimodal)
            /\ out_dir_vec' = VStack(out_list)
            /\ start_frame' = IF rc_call.fade_out
                              THEN <<StartFrame(Len(VStack(out_list)), end_padding_duration,
                                                rc_cfg)>>
                              ELSE <<>>
    /\ UNCHANGED <<rc_cfg, num_subdivisions, audio_sample_length, sub_div_idx,
                   end_padding_duration, out_list, rc_raw, rc_call, clip_words, rc_in,
                   rc_skipped, rc_device, pre_seq, pre_seq_trimodal, out_list_trimodal,
                   rc_raw_trimodal, end_frame, rc_zeroed, rc_smoothed>>
    /\ UNCHANGED rc_others

\* Lines 1337-1374, for the s2ag output as for the trimodal one: with fade_out
\* the stitched output is padded to end_frame, zeroed from end_frame - n_smooth
\* on and replaced by the fit between start_frame and end_frame; w[0] = 5 raises
\* IndexError on an empty fade region.
RcFadeOut ==
    /\ rc_pc = "stitched"
    /\ rc_call.fade_out
    /\ LET fade == FadeOut(out_dir_vec, start_frame[1], rc_cfg.n_pre_poses)
           fade_trimodal == FadeOut(out_dir_vec_trimodal, start_frame[1], rc_cfg.n_pre_poses)
       IN /\ end_frame' = <<fade.end_frame>>
          /\ IF fade.smoothed = {}
             THEN /\ rc_pc' = "error"
                  /\ UNCHANGED <<out_dir_vec, out_dir_vec_trimodal, rc_zeroed, rc_smoothed>>
             ELSE /\ rc_pc' = "faded"
                  /\ out_dir_vec_trimodal' = fade_trimodal.out
                  /\ out_dir_vec' = fade.out
                  /\ rc_zeroed' = fade.zeroed
                  /\ rc_smoothed' = fade.smoothed
    /\ UNCHANGED <<rc_cfg, num_subdivisions, audio_sample_length, sub_div_idx,
                   end_padding_duration, out_list, rc_raw, rc_call, clip_words, start_frame,
                   rc_in, rc_skipped, rc_device, pre_seq, pre_seq_trimodal, out_list_trimodal,
                   rc_raw_trimodal>>
    /\ UNCHANGED rc_others

\* render_clip returns to generate_gestures_by_dataset (lines 1473-1479), which
\* takes the result, whatever it is; the call's locals are gone.
RcReturn ==
    /\ \/ rc_pc \in {"skipped", "faded"}
       \/ rc_pc = "stitched" /\ ~rc_call.fade_out
    /\ rc_skipped' = (rc_skipped \/ rc_pc = "skipped")
    /\ rc_pc' = "returned"
    /\ rc_cfg' = [n_poses |-> 0, n_pre_poses |-> 0, fps |-> 0, sample_rate |-> 0,
                  audio_len |-> 0, unit_time |-> None]
    /\ rc_call' = [check_duration |-> FALSE, clip_time |-> <<0, 0>>, fade_out |-> FALSE]
    /\ clip_words' = <<>>
    /\ num_subdivisions' = 0
    /\ audio_sample_length' = 0
    /\ sub_div_idx' = 0
    /\ end_padding_duration' = 0
    /\ out_list' = <<>>
    /\ out_dir_vec' = <<>>
    /\ rc_raw' = <<>>
    /\ start_frame' = <<>>
    /\ rc_in' = <<>>
    /\ pre_seq' = <<>>
    /\ pre_seq_trimodal' = <<>>
    /\ out_list_trimodal' = <<>>
    /\ out_dir_vec_trimodal' = <<>>
    /\ rc_raw_trimodal' = <<>>
    /\ end_frame' = <<>>
    /\ rc_zeroed' = {}
    /\ rc_smoothed' = {}
    /\ UNCHANGED rc_device
    /\ UNCHANGED rc_others

\* generate_gestures_by_dataset, lines 1447-1480: the loop goes on to the next
\* sample and calls render_clip on its clip.
RcNextClip ==
    /\ rc_pc = "returned"
    /\ rc_pc' = "init"
    /\ rc_cfg' \in RcConfigs
    /\ rc_call' \in RcCalls
    /\ clip_words' = ClipWords(rc_call'.clip_time[1])
    /\ UNCHANGED <<num_subdivisions, audio_sample_length, sub_div_idx, end_padding_duration,
                   out_list, out_dir_vec, rc_raw, start_frame, rc_in, rc_skipped, rc_device,
                   pre_seq, pre_seq_trimodal, out_list_trimodal, out_dir_vec_trimodal,
                   rc_raw_trimodal, end_frame, rc_zeroed, rc_smoothed>>
    /\ UNCHANGED rc_others

RcNext == RcSetup \/ RcWindow \/ RcAggregate \/ RcFadeOut \/ RcReturn \/ RcNextClip

(***************************************************************************)
(* Claims about render_clip                                                *)
(***************************************************************************)
\* The generator's unit: raw frames are multiples of it.
RcOne == GenScale(rc_cfg)

\* C6: at every window boundary the trailing n = n_pre_poses frames of the output
\* accumulated so far are removed, and the new window's first n frames become
\* prev[j] * (n - j) / (n + 1) + next[j] * (j + 1) / (n + 1), prev the removed
\* frames and next the generator's frames; later frames of the new window are the
\* generator's.  With n = 4, prev = [1,1,1,1] and next = [5,5,5,5] the overlap
\* is [1.8, 2.6, 3.4, 4.2].
C6_BlendAtBoundary ==
    [][(rc_pc = "window" /\ sub_div_idx' = sub_div_idx + 1 /\ out_list # <<>>) =>
        LET n == rc_cfg.n_pre_poses
            k == Len(out_list)
            acc == out_list[k]
            prev == [j \in 1..n |-> acc[Len(acc) - n + j]]
            next == rc_raw'[k + 1]
            new == out_list'[k + 1]
        IN /\ Len(out_list') = k + 1
           /\ \A i \in 1..(k - 1) : out_list'[i] = out_list[i]
           /\ out_list'[k] = SubSeq(acc, 1, Len(acc) - n)
           /\ Len(new) = Len(next)
           /\ \A j \in 0..(n - 1) :
                 new[j + 1] * (n + 1) = prev[j + 1] * (n - j) + next[j + 1] * (j + 1)
           /\ \A j \in n..(Len(next) - 1) : new[j + 1] = next[j + 1]
           /\ (/\ n = 4
               /\ \A j \in 1..4 : prev[j] = 1 * RcOne /\ next[j] = 5 * RcOne)
              => /\ 10 * new[1] = 18 * RcOne
                 /\ 10 * new[2] = 26 * RcOne
                 /\ 10 * new[3] = 34 * RcOne
                 /\ 10 * new[4] = 42 * RcOne
      ]_vars

\* C6 witness: with n_pre_poses = 4 a window of 1s was followed by a window of 5s,
\* and the second window now starts 1.8, 2.6, 3.4, 4.2.
C6_Witness ==
    /\ rc_pc = "window"
    /\ rc_cfg.n_pre_poses = 4
    /\ Len(out_list) = 2
    /\ \A j \in 1..rc_cfg.n_poses : rc_raw[1][j] = 1 * RcOne /\ rc_raw[2][j] = 5 * RcOne
    /\ Len(out_list[1]) = rc_cfg.n_poses - 4
    /\ 10 * out_list[2][1] = 18 * RcOne
    /\ 10 * out_list[2][4] = 42 * RcOne
    /\ out_list[2][rc_cfg.n_poses] = 5 * RcOne

\* The clip of the end-to-end scenario: 13 seconds of audio, unit_time = 4 s
\* (passed, or the default n_poses / fps), stride_time = 2 s.
RcScenario13 ==
    /\ rc_cfg.audio_len = 13 * rc_cfg.sample_rate
    /\ IF rc_cfg.unit_time = None
       THEN rc_cfg.n_poses = 4 * rc_cfg.fps
       ELSE rc_cfg.unit_time = 4
    /\ rc_cfg.n_poses - rc_cfg.n_pre_poses = 2 * rc_cfg.fps

\* C7: the window count is 1 when clip_length < unit_time and otherwise the least
\* integer K with K * stride_time >= clip_length - unit_time; unit_time defaults to
\* n_poses / fps and stride_time is (n_poses - n_pre_poses) / fps.  The 13-second
\* clip with unit_time 4 s and stride_time 2 s has K = 5.
C7_WindowCount ==
    rc_pc \in {"window", "stitched", "error"} =>
        LET L == rc_cfg.audio_len
            sr == rc_cfg.sample_rate
            un == IF rc_cfg.unit_time = None THEN rc_cfg.n_poses ELSE rc_cfg.unit_time
            ud == IF rc_cfg.unit_time = None THEN rc_cfg.fps ELSE 1
            sn == rc_cfg.n_poses - rc_cfg.n_pre_poses
            sd == rc_cfg.fps
            K == num_subdivisions
        IN /\ IF L * ud < un * sr
              THEN K = 1
              ELSE /\ K * sn * (sr * ud) >= (L * ud - un * sr) * sd
                   /\ (K - 1) * sn * (sr * ud) < (L * ud - un * sr) * sd
           /\ RcScenario13 => K = 5

\* C7 witness: the 13-second clip with unit_time 4 s and stride_time 2 s got 5 windows.
C7_Witness ==
    /\ rc_pc = "window"
    /\ RcScenario13
    /\ num_subdivisions = 5

\* C8 (as claimed): the stitched output of the 13-second clip has
\* unit_frames + 4 * stride_frames - 4 * n_pre_poses frames.
C8_StitchedLengthClaimed ==
    (rc_pc = "stitched" /\ RcScenario13) =>
        Len(out_dir_vec) = 4 * rc_cfg.fps + 4 * (2 * rc_cfg.fps) - 4 * rc_cfg.n_pre_poses

\* C8 (amended): the stitched output of the 13-second clip has
\* 5 * n_poses - 4 * n_pre_poses frames: n_poses per window less the n_pre_poses
\* frames dropped at each of the 4 boundaries.  With the default unit_time this is
\* unit_frames + 4 * stride_frames; nothing more is subtracted.
C8_StitchedLength ==
    (rc_pc = "stitched" /\ RcScenario13) =>
        /\ num_subdivisions = 5
        /\ Len(out_dir_vec) = 5 * rc_cfg.n_poses - 4 * rc_cfg.n_pre_poses
        /\ rc_cfg.unit_time = None =>
               Len(out_dir_vec) = 4 * rc_cfg.fps + 4 * (2 * rc_cfg.fps)

\* C8 witness: the 13-second clip with the default unit_time was stitched.
C8_Witness ==
    /\ rc_pc = "stitched"
    /\ RcScenario13
    /\ rc_cfg.unit_time = None
    /\ Len(out_list) = 5

\* C17: a call with check_duration set on a clip shorter than the lower or longer
\* than the upper bound of clip_duration_range returns no result: no generator
\* call, no output, the word times untouched; the bulk loop takes the return and
\* goes on to the next sample.
C17_SkipOutOfRange ==
    /\ [][(/\ rc_pc = "init"
           /\ rc_call.check_duration
           /\ \/ rc_call.clip_time[2] - rc_call.clip_time[1] < clip_duration_range[1]
              \/ rc_call.clip_time[2] - rc_call.clip_time[1] > clip_duration_range[2])
          => (/\ rc_pc' = "skipped"
              /\ clip_words' = clip_words
              /\ rc_raw' = <<>>
              /\ out_list' = <<>>
              /\ out_dir_vec' = <<>>)]_vars
    /\ [][rc_pc = "skipped" => rc_pc' = "returned"]_vars
    /\ []((rc_pc = "skipped" => ENABLED RcReturn) /\ (rc_pc = "returned" => ENABLED RcNextClip))

\* C17 witness: a clip was rendered by the bulk loop after an earlier clip of the
\* loop had been skipped.
C17_Witness ==
    /\ rc_skipped
    /\ rc_pc = "stitched"
    /\ Len(rc_raw) >= 1

\* C18: every window's audio input is audio_sample_length = int(unit_time *
\* sample_rate) samples long, slice plus padding; only the last window's slice
\* can be short; after the loop end_padding_duration is the last window's
\* padding, and the fade-out's start frame is the output length less that
\* padding in frames.
C18_PaddingTracked ==
    rc_pc \in {"window", "stitched"} =>
        /\ audio_sample_length =
              (UnitTime(rc_cfg)[1] * rc_cfg.sample_rate) \div UnitTime(rc_cfg)[2]
        /\ \A i \in 1..Len(rc_in) :
              /\ rc_in[i].slice + rc_in[i].pad = audio_sample_length
              /\ rc_in[i].pad > 0 => i = num_subdivisions
        /\ Len(rc_in) = num_subdivisions /\ num_subdivisions >= 1 =>
              end_padding_duration = rc_in[num_subdivisions].pad
        /\ rc_pc = "stitched" /\ rc_call.fade_out =>
              start_frame = <<Len(out_dir_vec)
                              - (rc_in[num_subdivisions].pad * rc_cfg.fps) \div rc_cfg.sample_rate>>

\* C18 witness: a stitched clip shorter than unit_time, whose window was padded by
\* at least a frame of audio, with the fade-out on.
C18_Witness ==
    /\ rc_pc = "stitched"
    /\ rc_call.fade_out
    /\ rc_in[num_subdivisions].pad >= 1
    /\ start_frame # <<>>
    /\ start_frame[1] < Len(out_dir_vec)

\* C22 as claimed: a clip that passes the duration check gets at least window 0,
\* its windows are generated in increasing order with one generator call each,
\* and the call ends with a non-empty stitched output, never with an error; so
\* also for a clip as long as unit_time.
C22_WindowsThenDone ==
    rc_pc \in {"window", "stitched", "error"} =>
        /\ num_subdivisions >= 1
        /\ sub_div_idx <= num_subdivisions
        /\ Len(rc_raw) = sub_div_idx
        /\ rc_pc # "error"
        /\ rc_pc = "stitched" =>
              /\ sub_div_idx = num_subdivisions
              /\ out_dir_vec # <<>>
              /\ rc_call.fade_out <=> start_frame # <<>>

\* C23 as claimed: for a clip at least unit_time long, the windows
\* [i * stride_time, i * stride_time + unit_time), i < K, cover [0, clip_length):
\* they leave no gap between them and the last one ends at or after the clip's end.
\* Stated of the clips that get a window at all (the others are C22's).
C23_WindowsCoverClip ==
    LET L == rc_cfg.audio_len
        sr == rc_cfg.sample_rate
        un == UnitTime(rc_cfg)[1]
        ud == UnitTime(rc_cfg)[2]
        sn == rc_cfg.n_poses - rc_cfg.n_pre_poses
        sd == rc_cfg.fps
        K == num_subdivisions
    IN (rc_pc \in {"window", "stitched"} /\ L * ud >= un * sr /\ K >= 1) =>
           /\ sn * ud <= un * sd
           /\ (K - 1) * sn * ud * sr + un * sd * sr >= L * sd * ud

\* The pre-sequence pre of a generator that window idx was called with, against
\* the frames raw that the generator returned for the earlier windows: seed poses
\* for window 0, else the last n_pre_poses frames returned for window idx - 1;
\* the indicator bit set on exactly the first n_pre_poses frames and the pose of
\* every later frame zero.
PreSeqAsClaimed(pre, raw, idx) ==
    LET n == rc_cfg.n_pre_poses
        N == rc_cfg.n_poses
    IN /\ Len(pre) = N
       /\ \A j \in 1..N :
             /\ pre[j].bit = IF j <= n THEN 1 ELSE 0
             /\ j > n => pre[j].pose = 0
       /\ \A j \in 1..n :
             pre[j].pose = IF idx = 0
                           THEN TargetDirVec(rc_cfg)[j]
                           ELSE raw[idx][N - n + j]

\* C24 as claimed: every window's call gets, for either generator, the
\* pre-sequence described above, built from that generator's own frames.
C24_PreSequence ==
    [][(rc_pc = "window" /\ sub_div_idx' = sub_div_idx + 1) =>
          /\ PreSeqAsClaimed(pre_seq', rc_raw, sub_div_idx)
          /\ PreSeqAsClaimed(pre_seq_trimodal', rc_raw_trimodal, sub_div_idx)
      ]_vars

\* What holds: the claim wherever the output array is a copy of the tensor or
\* the smoothed frames stay clear of the last n_pre_poses ones.
PreSequenceWithoutAliasing ==
    [][(/\ rc_pc = "window"
        /\ sub_div_idx' = sub_div_idx + 1
        /\ rc_device # "cpu" \/ 2 * rc_cfg.n_pre_poses <= rc_cfg.n_poses) =>
          /\ PreSeqAsClaimed(pre_seq', rc_raw, sub_div_idx)
          /\ PreSeqAsClaimed(pre_seq_trimodal', rc_raw_trimodal, sub_div_idx)
      ]_vars

\* The end-padding of the clip in frames: int(end_padding_duration / audio_sr * fps).
PaddingFrames == (end_padding_duration * rc_cfg.fps) \div rc_cfg.sample_rate

MaxData == 2

MaxBatch == 2

MaxSpeakers == 2

SpeakerModels == {None} \cup (1..MaxSpeakers)

\* list(speaker_model.word2index.values()) of a Vocab built without default tokens.
word2index_values(speaker_model) == 0..(speaker_model - 1)

\* The speaker model of the split a call reads (save_cache looks the split's
\* vid_indices up in it).
SplitSpeakerModel(tr, tsm, vsm) == IF tr THEN tsm ELSE vsm

\* The vid_indices arrays of a split of n samples; the order of the samples does
\* not matter to the sampler, so the arrays are taken in nondecreasing order.
VidIndexArrays(n, speaker_model) ==
    LET top == IF speaker_model = None THEN MaxSpeakers ELSE speaker_model
    IN {a \in [1..n -> 0..(top - 1)] : \A i \in 1..(n - 1) : a[i] <= a[i + 1]}

\* samples['vid_indices'][rand_keys]
CurrVidIndices(vids, keys) == {vids[keys[i] + 1] : i \in 1..Len(keys)}

\* np.setdiff1d(list(speaker_model.word2index.values()), curr_vid_indices)
SetDiffIgnoringBatch(speaker_model, curr) == word2index_values(speaker_model)

SetDiff(speaker_model, curr) == word2index_values(speaker_model) \ curr

\* The speaker model the speaker input branches on: the train model on a train
\* call when it is a Vocab, else the validation model when it is a Vocab, else None.
BranchSpeakerModel(tr, tsm, vsm) ==
    IF tr /\ tsm # None THEN tsm
    ELSE IF vsm # None THEN vsm
    ELSE None

\* The exception np.random.choice raises on an empty array.
ValueError == -2

\* The outcomes of np.random.choice(domain).
RandomChoiceDefault(domain) == IF domain = {} THEN {0} ELSE domain

RandomChoice(domain) == IF domain = {} THEN {ValueError} ELSE domain

\* Line 596: (num_data + batch_size - 1) // batch_size
PseudoPassesFloor(n, b) == n \div b

PseudoPasses(n, b) == (n + b - 1) \div b

YbIdle ==
    /\ yb_pc = "idle"
    /\ train = FALSE
    /\ batch_size = 0
    /\ train_speaker_model = None
    /\ val_speaker_model = None
    /\ vid_indices = <<>>
    /\ num_data = 0
    /\ pseudo_passes = 0
    /\ yb_p = 0
    /\ rand_keys = <<>>
    /\ batch_vid_indices = <<>>
    /\ yb_yielded = 0

YbInit ==
    /\ yb_pc = "call"
    /\ train \in BOOLEAN
    /\ batch_size \in 1..MaxBatch
    /\ train_speaker_model \in SpeakerModels
    /\ val_speaker_model \in SpeakerModels
    /\ \E n \in 1..MaxData :
          vid_indices \in VidIndexArrays(n, SplitSpeakerModel(train, train_speaker_model,
                                                               val_speaker_model))
    /\ num_data = 0
    /\ pseudo_passes = 0
    /\ yb_p = 0
    /\ rand_keys = <<>>
    /\ batch_vid_indices = <<>>
    /\ yb_yielded = 0

\* Lines 589-597: the split's size and the number of passes.
YbBegin ==
    /\ yb_pc = "call"
    /\ num_data' = Len(vid_indices)
    /\ pseudo_passes' = PseudoPasses(Len(vid_indices), batch_size)
    /\ yb_p' = 0
    /\ yb_pc' = "loop"
    /\ UNCHANGED <<train, batch_size, train_speaker_model, val_speaker_model, vid_indices,
                   rand_keys, batch_vid_indices, yb_yielded>>
    /\ UNCHANGED yb_others

\* Lines 599-637: one pass of the loop, up to its yield or to the exception that
\* np.random.choice raises.
YbPass ==
    /\ yb_pc = "loop"
    /\ yb_p < pseudo_passes
    /\ \E keys \in [1..batch_size -> 0..(num_data - 1)] :
          LET curr_vid_indices == CurrVidIndices(vid_indices, keys)
              speaker_model == BranchSpeakerModel(train, train_speaker_model, val_speaker_model)
          IN /\ rand_keys' = keys
             /\ IF speaker_model = None
                THEN /\ batch_vid_indices' = <<>>
                     /\ yb_yielded' = yb_yielded + 1
                     /\ yb_p' = yb_p + 1
                     /\ yb_pc' = "loop"
                ELSE \E draws \in [1..batch_size ->
                                      RandomChoice(SetDiff(speaker_model, curr_vid_indices))] :
                        IF \E i \in 1..batch_size : draws[i] = ValueError
                        THEN /\ yb_pc' = "error"
                             /\ UNCHANGED <<batch_vid_indices, yb_yielded, yb_p>>
                        ELSE /\ batch_vid_indices' = draws
                             /\ yb_yielded' = yb_yielded + 1
                             /\ yb_p' = yb_p + 1
                             /\ yb_pc' = "loop"
    /\ UNCHANGED <<train, batch_size, train_speaker_model, val_speaker_model, vid_indices,
                   num_data, pseudo_passes>>
    /\ UNCHANGED yb_others

\* Line 599: the loop is exhausted and the generator returns.
YbReturn ==
    /\ yb_pc = "loop"
    /\ yb_p >= pseudo_passes
    /\ yb_pc' = "done"
    /\ UNCHANGED <<train, batch_size, train_speaker_model, val_speaker_model, vid_indices,
                   num_data, pseudo_passes, yb_p, rand_keys, batch_vid_indices, yb_yielded>>
    /\ UNCHANGED yb_others

YbNext == YbBegin \/ YbPass \/ YbReturn

(***************************************************************************)
(* Claims about yield_batch                                                *)
(***************************************************************************)
\* The speaker vocabulary of the split the call reads.
YbSplitModel == SplitSpeakerModel(train, train_speaker_model, val_speaker_model)

\* The true speaker indices of the samples drawn for the latest pass.
YbCurr == CurrVidIndices(vid_indices, rand_keys)

\* C9: in every batch yielded while the split has a speaker vocabulary, there are
\* batch_size foreign speaker indices, each one in the split's vocabulary and
\* different from the true speaker index of every sample drawn for the batch.
C9_ForeignSpeakers ==
    (yb_yielded >= 1 /\ yb_pc \in {"loop", "done"} /\ YbSplitModel # None) =>
        /\ Len(batch_vid_indices) = batch_size
        /\ Len(rand_keys) = batch_size
        /\ \A i \in 1..Len(batch_vid_indices) :
              /\ batch_vid_indices[i] \in word2index_values(YbSplitModel)
              /\ batch_vid_indices[i] \notin YbCurr
              /\ batch_vid_indices[i] # vid_indices[rand_keys[i] + 1]

\* C9 witness: a batch of two samples of speaker 0 was yielded over a vocabulary
\* of two speakers, with foreign speaker 1 for both.
C9_Witness ==
    /\ yb_pc \in {"loop", "done"}
    /\ yb_yielded >= 1
    /\ YbSplitModel = 2
    /\ batch_size = 2
    /\ YbCurr = {0}
    /\ batch_vid_indices = <<1, 1>>

\* C10: a pass whose drawn samples' true speaker indices cover the whole speaker
\* vocabulary ends the call with an exception: no batch is yielded for it and
\* the pass does not stay in the loop.
C10_CoveredVocabularyRaises ==
    [][(/\ yb_pc = "loop"
        /\ yb_p < pseudo_passes
        /\ BranchSpeakerModel(train, train_speaker_model, val_speaker_model) # None
        /\ word2index_values(BranchSpeakerModel(train, train_speaker_model, val_speaker_model))
              \subseteq CurrVidIndices(vid_indices, rand_keys'))
       => (/\ yb_pc' = "error"
           /\ yb_yielded' = yb_yielded
           /\ batch_vid_indices' = batch_vid_indices)]_vars

\* C10 witness: a single-speaker split, whose every draw covers the vocabulary,
\* and the call has ended with the exception.
C10_Witness ==
    /\ yb_pc = "error"
    /\ YbSplitModel = 1
    /\ YbCurr = {0}
    /\ yb_yielded = 0

\* C11 as claimed: every call ends by returning, after exactly
\* ceil(num_samples / batch_size) batches.
C11_EveryCallReturns ==
    /\ yb_pc # "error"
    /\ yb_pc = "done" => yb_yielded = Ceil(Len(vid_indices), batch_size)

\* What holds of the passes of a call in every state.
YbPassesInv ==
    /\ yb_pc = "done" => yb_yielded = Ceil(Len(vid_indices), batch_size)
    /\ yb_pc = "error" =>
          /\ BranchSpeakerModel(train, train_speaker_model, val_speaker_model) # None
          /\ word2index_values(BranchSpeakerModel(train, train_speaker_model,
                                                  val_speaker_model)) \subseteq YbCurr
    /\ yb_yielded <= Ceil(Len(vid_indices), batch_size)
    /\ (yb_yielded >= 1 \/ yb_pc = "error") =>
          /\ Len(rand_keys) = batch_size
          /\ \A i \in 1..Len(rand_keys) : rand_keys[i] \in 0..(Len(vid_indices) - 1)

\* C11: a call that returns has yielded exactly ceil(num_samples / batch_size)
\* batches, each of batch_size sample indices in [0, num_samples); a call ends
\* otherwise only with the exception of a pass whose drawn speakers cover the
\* vocabulary; and every call ends.
C11_PassCount == [](YbPassesInv) /\ <>(yb_pc \in {"done", "error"})

\* C11 witness: one sample, batch_size 2: the call returned after its single
\* pass, which drew the sample twice.
C11_Witness ==
    /\ yb_pc = "done"
    /\ Len(vid_indices) = 1
    /\ batch_size = 2
    /\ rand_keys = <<0, 0>>
    /\ yb_yielded = 1

(***************************************************************************)
(* The audio of a cached sample: save_cache encodes it as int16 normalised  *)
(* by its peak, yield_batch decodes it.  Amplitudes are integers (exact     *)
(* multiples of a common unit); a decoded value is kept as its numerator    *)
(* over Int16Max.                                                           *)
(***************************************************************************)
MaxAmp == 4

MaxAudioLen == 3

Int16Max == 32767

Int16Min == -32768

Abs(x) == IF x < 0 THEN -x ELSE x

Audios == UNION {[1..n -> (-MaxAmp)..MaxAmp] : n \in 1..MaxAudioLen}

\* np.max(np.abs(audio))
PeakOf(audio) == SetMax({Abs(audio[i]) : i \in 1..Len(audio)})

\* make_audio_fixed_length(audio, expected_audio_length): the audio cut to the
\* length, or padded with zeros at its end.
make_audio_fixed_length(audio, n) ==
    [i \in 1..n |-> IF i <= Len(audio) THEN audio[i] ELSE 0]

\* A float-to-int16 conversion truncates toward zero.
TruncDiv(a, b) == IF a >= 0 THEN a \div b ELSE -((-a) \div b)

\* What np.int16 makes of NaN (0 / 0) is not defined; these are the values the
\* conversion produces on the usual builds.
NanToInt16 == {Int16Min, 0}

\* np.int16(audio / audio_max * 32767): the arrays the conversion can produce.
EncodeOutcomes(audio, peak) ==
    IF peak = 0 THEN [1..Len(audio) -> NanToInt16]
    ELSE {[i \in 1..Len(audio) |-> TruncDiv(audio[i] * Int16Max, peak)]}

\* stored * audio_max / 32767, as a numerator over Int16Max.
DecodeNoPeak(stored, peak) == stored

Decode(stored, peak) == stored * peak

AuIdle ==
    /\ au_pc = "idle"
    /\ au_audio = <<>>
    /\ audio_length = 0
    /\ au_fixed = <<>>
    /\ audio_max = 0
    /\ au_stored = <<>>
    /\ batch_audio = <<>>

AuInit ==
    /\ au_pc = "raw"
    /\ au_audio \in Audios
    /\ audio_length \in 1..MaxAudioLen
    /\ au_fixed = <<>>
    /\ audio_max = 0
    /\ au_stored = <<>>
    /\ batch_audio = <<>>

\* save_cache, lines 299-319: the peak is taken before the audio is cut.
AuSave ==
    /\ au_pc = "raw"
    /\ LET peak == PeakOf(au_audio)
           audio == make_audio_fixed_length(au_audio, audio_length)
       IN /\ audio_max' = peak
          /\ au_fixed' = audio
          /\ au_stored' \in EncodeOutcomes(audio, peak)
    /\ au_pc' = "stored"
    /\ UNCHANGED <<au_audio, audio_length, batch_audio>>
    /\ UNCHANGED au_others

\* yield_batch, lines 605-607.
AuDecode ==
    /\ au_pc = "stored"
    /\ batch_audio' = [i \in 1..Len(au_stored) |-> Decode(au_stored[i], audio_max)]
    /\ au_pc' = "decoded"
    /\ UNCHANGED <<au_audio, audio_length, au_fixed, audio_max, au_stored>>
    /\ UNCHANGED au_others

AuNext == AuSave \/ AuDecode

(***************************************************************************)
(* Claims about the cached audio                                            *)
(***************************************************************************)
\* C12 as claimed: the error of every decoded sample relative to that sample's
\* own value is at most 1 / 32767.
C12_RelativeToSample ==
    au_pc = "decoded" =>
        \A i \in 1..Len(batch_audio) :
            Abs(au_fixed[i] * Int16Max - batch_audio[i]) <= Abs(au_fixed[i])

\* C12: every decoded sample differs from the same sample of the cut or padded
\* waveform by at most audio_max / 32767, audio_max being the stored peak.
C12_AudioRoundTrip ==
    au_pc = "decoded" =>
        /\ Len(batch_audio) = audio_length
        /\ \A i \in 1..Len(batch_audio) :
              Abs(au_fixed[i] * Int16Max - batch_audio[i]) <= audio_max

\* C12 witness: the peak lies in the part that was cut off, and a decoded sample
\* is not exactly the original.
C12_Witness ==
    /\ au_pc = "decoded"
    /\ Len(au_audio) > audio_length
    /\ audio_max > PeakOf(au_fixed)
    /\ \E i \in 1..Len(batch_audio) : batch_audio[i] # au_fixed[i] * Int16Max

(***************************************************************************)
(* The sample cache: Processor.__init__ (lines 180-210), save_cache and     *)
(* load_cache.  The file system is the set of directories that exist, the   *)
(* per-sample archives by <<directory, file name>>, and the consolidated    *)
(* archive of the split.                                                    *)
(***************************************************************************)
MaxCache == 2

KeyWidth == 6

Parts == {"train", "val", "test"}

\* The directories the calls name: dir_name, jn(dir_name, part), jn(dir_name, '../full').
DirName == "dir_name"

DirNamePart == "dir_name/part"

FullCachePath == "dir_name/../full"

\* The decimal digits of k, most significant first.
RECURSIVE DigitsOf(_)
DigitsOf(k) == IF k < 10 THEN <<k>> ELSE Append(DigitsOf(k \div 10), k % 10)

\* str(k).zfill(width)
ZFill(k, width) ==
    LET d == DigitsOf(k)
    IN IF Len(d) >= width THEN d ELSE Zeros(width - Len(d)) \o d

\* The records of the session store: what a cached row depends on.
StoreSamples == {[vec_seq |-> 7, audio |-> <<1, -2>>, vid |-> 0],
                 [vec_seq |-> 8, audio |-> <<3>>, vid |-> 1]}

CacheAudioLength == 2

\* Lines 298-321: the fields cached for one sample (the audio's peak is not zero
\* for the samples of StoreSamples, so the conversion has one outcome).
CacheRow(sample) ==
    LET peak == PeakOf(sample.audio)
        audio == make_audio_fixed_length(sample.audio, CacheAudioLength)
    IN [vec_seq |-> sample.vec_seq,
        audio |-> CHOOSE st \in EncodeOutcomes(audio, peak) : TRUE,
        audio_max |-> peak,
        vid_indices |-> sample.vid]

\* np.zeros rows of the *_all arrays.
ZeroRow == [vec_seq |-> 0, audio |-> Zeros(CacheAudioLength), audio_max |-> 0, vid_indices |-> 0]

CacheRows(store) == [k \in 1..Len(store) |-> CacheRow(store[k])]

NoArchive == [exists |-> FALSE, rows |-> <<>>]

NoSamples == [loaded |-> FALSE, rows |-> <<>>]

\* Line 323: where save_cache writes sample k.
SavePath(k) == <<DirNamePart, ZFill(k, KeyWidth)>>

\* Line 252: where load_cache reads sample k.
LoadPath(k) == <<DirName, ZFill(k, KeyWidth)>>

\* The per-sample archives of a whole split under one directory.
SampleFiles(dir, store) ==
    [f \in {<<dir, ZFill(k, KeyWidth)>> : k \in 0..(Len(store) - 1)} |->
        CacheRow(store[(CHOOSE k \in 0..(Len(store) - 1) : ZFill(k, KeyWidth) = f[2]) + 1])]

NoFiles == SampleFiles(DirName, <<>>)

ChIdle ==
    /\ ch_pc = "idle"
    /\ ch_part = "train"
    /\ load_full = TRUE
    /\ ch_store = <<>>
    /\ fs_dirs = {}
    /\ fs_samples = NoFiles
    /\ fs_full = NoArchive
    /\ ch_k = 0
    /\ ch_all = <<>>
    /\ samples_dict = NoSamples
    /\ ch_from_init = FALSE
    /\ ch_missing = FALSE
    /\ ch_source = "none"

\* A call on a file system that earlier runs or the user may have left: dir_name
\* with or without its sub-directory, with or without per-sample archives, and
\* with or without the consolidated archive.
ChInit ==
    /\ ch_part \in Parts
    /\ \E n \in 0..MaxCache : ch_store \in [1..n -> StoreSamples]
    /\ \E call \in {"construct", "save_cache", "load_cache"} :
          /\ ch_pc = (IF call = "construct" THEN "construct"
                      ELSE IF call = "save_cache" THEN "save" ELSE "load")
          /\ ch_from_init = (call = "construct")
          /\ load_full \in (IF call = "load_cache" THEN BOOLEAN ELSE {TRUE})
    /\ \E dirs \in SUBSET {DirName, DirNamePart, FullCachePath} :
          /\ DirNamePart \in dirs => DirName \in dirs
          /\ fs_dirs = dirs
          /\ fs_full \in {NoArchive} \cup
                (IF FullCachePath \in dirs
                 THEN {[exists |-> TRUE, rows |-> CacheRows(ch_store)]} ELSE {})
          /\ fs_samples \in {NoFiles} \cup
                (IF DirName \in dirs THEN {SampleFiles(DirName, ch_store)} ELSE {}) \cup
                (IF DirNamePart \in dirs THEN {SampleFiles(DirNamePart, ch_store)} ELSE {})
    /\ ch_k = 0
    /\ ch_all = [k \in 1..Len(ch_store) |-> ZeroRow]
    /\ samples_dict = NoSamples
    /\ ch_missing = FALSE
    /\ ch_source = "none"

\* Processor.__init__, lines 191-194, 197-200 and 208-210: the split's cache is
\* built if dir_name does not exist; the train and val caches are then loaded.
ChConstruct ==
    /\ ch_pc = "construct"
    /\ ch_missing' = (DirName \notin fs_dirs)
    /\ ch_pc' = IF DirName \notin fs_dirs THEN "save"
                ELSE IF ch_part = "test" THEN "constructed" ELSE "load"
    /\ UNCHANGED <<ch_part, load_full, ch_store, fs_dirs, fs_samples, fs_full, ch_k, ch_all,
                   samples_dict, ch_from_init, ch_source>>
    /\ UNCHANGED ch_others

\* save_cache, lines 286-330: one sample.  np.savez_compressed does not create
\* the directory of its file.
ChSaveSample ==
    /\ ch_pc = "save"
    /\ ch_k < Len(ch_store)
    /\ LET row == CacheRow(ch_store[ch_k + 1])
           path == SavePath(ch_k)
       IN /\ ch_all' = [ch_all EXCEPT ![ch_k + 1] = row]
          /\ IF path[1] \in fs_dirs
             THEN /\ fs_samples' = [f \in DOMAIN fs_samples \cup {path} |->
                                       IF f = path THEN row ELSE fs_samples[f]]
                  /\ ch_k' = ch_k + 1
                  /\ ch_pc' = "save"
             ELSE /\ ch_pc' = "error"
                  /\ UNCHANGED <<fs_samples, ch_k>>
    /\ UNCHANGED <<ch_part, load_full, ch_store, fs_dirs, fs_full, samples_dict, ch_from_init,
                   ch_missing, ch_source>>
    /\ UNCHANGED ch_others

\* save_cache, lines 332-340: os.makedirs(jn(dir_name, '../full')) makes dir_name
\* too when it is missing; the consolidated archive is then written.
ChStoreFull ==
    /\ ch_pc = "save"
    /\ ch_k >= Len(ch_store)
    /\ fs_dirs' = fs_dirs \cup {DirName, FullCachePath}
    /\ fs_full' = [exists |-> TRUE, rows |-> ch_all]
    /\ ch_pc' = IF ~ch_from_init THEN "saved"
                ELSE IF ch_part = "test" THEN "constructed" ELSE "load"
    /\ UNCHANGED <<ch_part, load_full, ch_store, fs_samples, ch_k, ch_all, samples_dict,
                   ch_from_init, ch_missing, ch_source>>
    /\ UNCHANGED ch_others

\* load_cache, lines 223-272.  np.load raises on a missing file (the path of the
\* consolidated archive goes through dir_name), np.stack on an empty list.
ChLoadCache ==
    /\ ch_pc = "load"
    /\ IF load_full
       THEN IF DirName \in fs_dirs /\ fs_full.exists
            THEN /\ samples_dict' = [loaded |-> TRUE, rows |-> fs_full.rows]
                 /\ ch_source' = "full"
                 /\ ch_pc' = "ready"
            ELSE /\ ch_pc' = "error"
                 /\ ch_source' = "raised"
                 /\ UNCHANGED samples_dict
       ELSE IF /\ Len(ch_store) >= 1
               /\ \A k \in 0..(Len(ch_store) - 1) : LoadPath(k) \in DOMAIN fs_samples
            THEN /\ samples_dict' = [loaded |-> TRUE,
                                     rows |-> [k \in 1..Len(ch_store) |-> fs_samples[LoadPath(k - 1)]]]
                 /\ ch_source' = "files"
                 /\ ch_pc' = "ready"
            ELSE /\ ch_pc' = "error"
                 /\ ch_source' = "raised"
                 /\ UNCHANGED samples_dict
    /\ UNCHANGED <<ch_part, load_full, ch_store, fs_dirs, fs_samples, fs_full, ch_k, ch_all,
                   ch_from_init, ch_missing>>
    /\ UNCHANGED ch_others

ChNext == ChConstruct \/ ChSaveSample \/ ChStoreFull \/ ChLoadCache

(***************************************************************************)
(* Claims about the sample cache                                            *)
(***************************************************************************)
\* C13 as claimed: a construction that finds dir_name missing rebuilds the cache
\* without error: every sample index is cached to its own archive, then the
\* consolidated archive is written, and the load that follows succeeds.
C13_RebuildWithoutError ==
    (ch_from_init /\ ch_missing) =>
        /\ ch_pc # "error"
        /\ ch_pc \in {"load", "constructed", "ready"} =>
              /\ ch_k = Len(ch_store)
              /\ fs_full = [exists |-> TRUE, rows |-> CacheRows(ch_store)]

\* C14 as claimed: on a split whose cache exists, as the consolidated archive or
\* as the per-sample files, a finished load_cache has read the consolidated archive if it
\* exists, has read the per-sample files only if it does not, and has loaded the
\* split's samples.
C14_ArchiveByExistence ==
    (/\ ch_source # "none"
     /\ Len(ch_store) >= 1
     /\ \/ fs_full.exists
        \/ \A k \in 0..(Len(ch_store) - 1) : LoadPath(k) \in DOMAIN fs_samples) =>
        /\ fs_full.exists => ch_source = "full"
        /\ ch_source = "files" => ~fs_full.exists
        /\ samples_dict.loaded

\* C15 as claimed: after a save_cache, sample k's archive is at the path from
\* which load_cache(load_full = False) reads sample k, and holds the fields of
\* row k of the consolidated archive.
C15_SampleAddressable ==
    ch_pc \in {"saved", "load", "constructed"} /\ ch_k = Len(ch_store) /\ fs_full.exists =>
        \A k \in 0..(Len(ch_store) - 1) :
            /\ LoadPath(k) \in DOMAIN fs_samples
            /\ fs_samples[LoadPath(k)] = fs_full.rows[k + 1]

(***************************************************************************)
(* Speaker vocabulary cache: TedDBParams and TedDBParamsMinimal            *)
(***************************************************************************)
MaxVideos == 3          \* records in the split's store
MaxVids == 2            \* distinct speaker ids
MaxConstructions == 3   \* constructions in a row

Classes == {"TedDBParams", "TedDBParamsMinimal"}

\* The class defines _make_speaker_model: TedDBParams does (line 501),
\* TedDBParamsMinimal (lines 435-447) defines nothing but __init__.
HasMakeSpeakerModel(cls) == cls = "TedDBParams"

\* A Vocab without default tokens, as the sequence index -> word; word2index is
\* its inverse and n_words its length.
EmptyVocab == <<>>

\* Vocab.index_word: a new word takes the next index, a known word changes nothing.
index_word(vocab, word) ==
    IF \E i \in 1..Len(vocab) : vocab[i] = word THEN vocab ELSE Append(vocab, word)

RECURSIVE IndexAll(_, _)
IndexAll(vocab, vids) ==
    IF vids = <<>> THEN vocab ELSE IndexAll(index_word(vocab, Head(vids)), Tail(vids))

\* The attribute before any assignment.
NoAttribute == <<None>>

NoModelFile == [exists |-> FALSE, model |-> EmptyVocab]

\* The speaker_model argument: None, 0, or a model the caller passes.
SpeakerModelArgs ==
    {[kind |-> "None", vocab |-> EmptyVocab], [kind |-> "0", vocab |-> EmptyVocab]}
        \cup {[kind |-> "vocab", vocab |-> <<v>>] : v \in 1..MaxVids}

LmdbVids == UNION {[1..n -> 1..MaxVids] : n \in 0..MaxVideos}

SpIdle ==
    /\ sp_pc = "idle"
    /\ sp_class = "TedDBParams"
    /\ sp_arg = [kind |-> "None", vocab |-> EmptyVocab]
    /\ lmdb_vids = <<>>
    /\ sp_cursor = 0
    /\ sp_vocab = EmptyVocab
    /\ self_speaker_model = NoAttribute
    /\ precomputed_model = NoModelFile
    /\ sp_absent = FALSE
    /\ sp_built = FALSE
    /\ sp_first = NoAttribute
    /\ sp_runs = 0

\* Before the first construction: the cache file is absent, or an earlier run built
\* it from the same store.
SpInit ==
    /\ sp_pc = "init"
    /\ sp_class = "TedDBParams"
    /\ sp_arg = [kind |-> "None", vocab |-> EmptyVocab]
    /\ lmdb_vids \in LmdbVids
    /\ sp_cursor = 0
    /\ sp_vocab = EmptyVocab
    /\ self_speaker_model = NoAttribute
    /\ precomputed_model \in
           {NoModelFile, [exists |-> TRUE, model |-> IndexAll(EmptyVocab, lmdb_vids)]}
    /\ sp_absent = FALSE
    /\ sp_built = FALSE
    /\ sp_first = NoAttribute
    /\ sp_runs = 0

\* __init__ of either class, from the speaker-model branch on: a passed model is
\* kept; otherwise an existing file is unpickled, and a missing one calls
\* self._make_speaker_model, an AttributeError where the class has no such method.
SpConstruct ==
    /\ sp_pc = "init"
    /\ sp_runs < MaxConstructions
    /\ \E cls \in Classes, arg \in SpeakerModelArgs :
          /\ sp_class' = cls
          /\ sp_arg' = arg
          /\ IF arg.kind \in {"None", "0"}
             THEN IF ~precomputed_model.exists
                  THEN /\ sp_pc' = IF HasMakeSpeakerModel(cls) THEN "scanning" ELSE "error"
                       /\ self_speaker_model' = NoAttribute
                       /\ UNCHANGED sp_first
                  ELSE /\ sp_pc' = "constructed"
                       /\ self_speaker_model' = precomputed_model.model
                       /\ sp_first' = IF sp_first = NoAttribute
                                      THEN precomputed_model.model ELSE sp_first
             ELSE /\ sp_pc' = "constructed"
                  /\ self_speaker_model' = arg.vocab
                  /\ UNCHANGED sp_first
    /\ sp_absent' = ~precomputed_model.exists
    /\ sp_built' = FALSE
    /\ sp_cursor' = 0
    /\ sp_vocab' = EmptyVocab
    /\ sp_runs' = sp_runs + 1
    /\ UNCHANGED <<lmdb_vids, precomputed_model>>
    /\ UNCHANGED sp_others

\* _make_speaker_model, one record of the cursor loop.
SpIndexWord ==
    /\ sp_pc = "scanning"
    /\ sp_cursor < Len(lmdb_vids)
    /\ sp_vocab' = index_word(sp_vocab, lmdb_vids[sp_cursor + 1])
    /\ sp_cursor' = sp_cursor + 1
    /\ UNCHANGED <<sp_pc, sp_class, sp_arg, lmdb_vids, self_speaker_model, precomputed_model,
                   sp_absent, sp_built, sp_first, sp_runs>>
    /\ UNCHANGED sp_others

\* _make_speaker_model after the loop: the attribute is set and pickled.
SpPersist ==
    /\ sp_pc = "scanning"
    /\ sp_cursor = Len(lmdb_vids)
    /\ self_speaker_model' = sp_vocab
    /\ precomputed_model' = [exists |-> TRUE, model |-> sp_vocab]
    /\ sp_built' = TRUE
    /\ sp_first' = IF sp_first = NoAttribute THEN sp_vocab ELSE sp_first
    /\ sp_pc' = "constructed"
    /\ UNCHANGED <<sp_class, sp_arg, lmdb_vids, sp_cursor, sp_vocab, sp_absent, sp_runs>>
    /\ UNCHANGED sp_others

\* The caller goes on to its next construction, of a new object.
SpNextConstruction ==
    /\ sp_pc \in {"constructed", "error"}
    /\ sp_runs < MaxConstructions
    /\ sp_pc' = "init"
    /\ self_speaker_model' = NoAttribute
    /\ UNCHANGED <<sp_class, sp_arg, lmdb_vids, sp_cursor, sp_vocab, precomputed_model,
                   sp_absent, sp_built, sp_first, sp_runs>>
    /\ UNCHANGED sp_others

SpNext == SpConstruct \/ SpIndexWord \/ SpPersist \/ SpNextConstruction

(***************************************************************************)
(* Claims about the speaker vocabulary cache                               *)
(***************************************************************************)
\* C20 as claimed: a construction of either class without a speaker model does
\* not fail; when it has finished, speaker_model is set, the vocabulary was built
\* from the store and persisted exactly when the cache file was absent, and the
\* mapping equals that of the first such construction.
C20_SpeakerModelCached ==
    (sp_runs >= 1 /\ sp_arg.kind \in {"None", "0"}) =>
        /\ sp_pc # "error"
        /\ sp_pc = "constructed" =>
              /\ self_speaker_model # NoAttribute
              /\ self_speaker_model = IndexAll(EmptyVocab, lmdb_vids)
              /\ sp_built <=> sp_absent
              /\ precomputed_model = [exists |-> TRUE, model |-> self_speaker_model]
              /\ self_speaker_model = sp_first

\* The same for TedDBParams alone, which holds.
SpeakerModelCachedTedDBParams ==
    (sp_class = "TedDBParams") => C20_SpeakerModelCached


(***************************************************************************)
(* Derived lengths: TedDBParams.__init__ and Processor.__init__            *)
(***************************************************************************)
MaxNPoses == 8      \* n_poses
MaxFps == 8         \* pose_resampling_fps

TedSampleRate == 16000
HopSize == 512

\* round(p / q) of Python 3 for p >= 0, q > 0: to the nearest integer, a half to
\* the even neighbour.
RoundHalfEven(p, q) ==
    LET f == p \div q
        r == p % q
    IN  IF 2 * r < q THEN f
        ELSE IF 2 * r > q THEN f + 1
        ELSE IF f % 2 = 0 THEN f ELSE f + 1

\* int(round(n_poses / pose_resampling_fps * 16000))
ExpectedAudioLength(n, fps) == RoundHalfEven(n * TedSampleRate, fps)

\* int(np.ceil(x / 512)): the parenthesis closes after the division.
CeilOfQuotient(x) == Ceil(x, HopSize)

\* int(np.ceil(x) / 512): the ceiling is taken of the integer x, and int()
\* truncates the quotient.
QuotientOfCeil(x) == Floor(x, HopSize)

PmIdle ==
    /\ pm_pc = "idle"
    /\ pm_n_poses = 0
    /\ pm_fps = 0
    /\ expected_audio_length = 0
    /\ ted_mfcc_length = 0
    /\ proc_audio_length = 0
    /\ proc_mfcc_length = 0

PmInit ==
    /\ pm_pc = "init"
    /\ pm_n_poses \in 1..MaxNPoses
    /\ pm_fps \in 1..MaxFps
    /\ expected_audio_length = 0
    /\ ted_mfcc_length = 0
    /\ proc_audio_length = 0
    /\ proc_mfcc_length = 0

\* TedDBParams.__init__, lines 460-464.
PmTedDBParams ==
    /\ pm_pc = "init"
    /\ expected_audio_length' = ExpectedAudioLength(pm_n_poses, pm_fps)
    /\ ted_mfcc_length' = QuotientOfCeil(ExpectedAudioLength(pm_n_poses, pm_fps))
    /\ pm_pc' = "params"
    /\ UNCHANGED <<pm_n_poses, pm_fps, proc_audio_length, proc_mfcc_length>>
    /\ UNCHANGED pm_others

\* Processor.__init__, lines 113-125: the lengths come from the data loader of
\* either branch.
PmProcessor ==
    /\ pm_pc = "params"
    /\ proc_audio_length' = expected_audio_length
    /\ proc_mfcc_length' = CeilOfQuotient(expected_audio_length)
    /\ pm_pc' = "processor"
    /\ UNCHANGED <<pm_n_poses, pm_fps, expected_audio_length, ted_mfcc_length>>
    /\ UNCHANGED pm_others

PmNext == PmTedDBParams \/ PmProcessor

(***************************************************************************)
(* Claims about the derived lengths                                        *)
(***************************************************************************)
\* C21 as claimed: once both objects are constructed, expected_audio_length is
\* round(n_poses / fps * 16000), TedDBParams.mfcc_length is the ceiling of
\* expected_audio_length / 512, and it equals Processor.mfcc_length.
C21_MfccLengthsAgree ==
    pm_pc = "processor" =>
        /\ expected_audio_length = ExpectedAudioLength(pm_n_poses, pm_fps)
        /\ ted_mfcc_length * HopSize >= expected_audio_length
        /\ (ted_mfcc_length - 1) * HopSize < expected_audio_length
        /\ ted_mfcc_length = proc_mfcc_length

\* What does hold: the Processor's length is the ceiling, the TedDBParams length
\* the floor, and they differ by one unless 512 divides expected_audio_length.
MfccLengthsFloorAndCeil ==
    pm_pc = "processor" =>
        /\ proc_mfcc_length = Ceil(proc_audio_length, HopSize)
        /\ ted_mfcc_length = Floor(expected_audio_length, HopSize)
        /\ proc_mfcc_length - ted_mfcc_length
               = IF expected_audio_length % HopSize = 0 THEN 0 ELSE 1

(***************************************************************************)
(* Processor.words_to_tensor: the index sequence of a sample's words       *)
(***************************************************************************)
\* Mutant: a word that starts at the cutoff is past it too.
AtOrPastCutoff(start, end_time) == end_time # None /\ start >= end_time

\* end_time is not None and word[1] > end_time
PastCutoff(start, end_time) == end_time # None /\ start > end_time

\* The loop over words from word k on: it breaks at the first word past the cutoff.
RECURSIVE WordsLoop(_, _, _, _)
WordsLoop(words, k, end_time, indexes) ==
    IF k > Len(words) THEN indexes
    ELSE IF PastCutoff(words[k].start, end_time) THEN indexes
    ELSE WordsLoop(words, k + 1, end_time, Append(indexes, get_word_index(words[k].word)))

words_to_tensor(words, end_time) ==
    Append(WordsLoop(words, 1, end_time, <<SOS_token>>), EOS_token)

WtIdle ==
    /\ wt_pc = "idle"
    /\ wt_words = <<>>
    /\ wt_end_time = None
    /\ word_seq_tensor = <<>>

\* The arguments of one call: any word list, in any order of start times.
WtInit ==
    /\ wt_pc = "call"
    /\ wt_words \in SeqsUpTo(WordEvents, MaxWords)
    /\ wt_end_time \in {None} \cup 0..MaxTime
    /\ word_seq_tensor = <<>>

WtCall ==
    /\ wt_pc = "call"
    /\ word_seq_tensor' = words_to_tensor(wt_words, wt_end_time)
    /\ wt_pc' = "done"
    /\ UNCHANGED <<wt_words, wt_end_time>>
    /\ UNCHANGED wt_others

WtNext == WtCall

(***************************************************************************)
(* Claims about words_to_tensor                                            *)
(***************************************************************************)
\* The words kept: those before the first word that starts after end_time, all
\* of them when there is none or end_time is None.
WtKept ==
    LET past == {i \in 1..Len(wt_words) :
                    wt_end_time # None /\ wt_words[i].start > wt_end_time}
    IN IF past = {} THEN Len(wt_words) ELSE SetMin(past) - 1

\* C26: the result is the start token, the vocabulary indices of the words kept,
\* in order, and the end token: 2 + WtKept entries, none of a word at or after
\* the first one past the cutoff.
C26_WordsToTensor ==
    wt_pc = "done" =>
        /\ Len(word_seq_tensor) = 2 + WtKept
        /\ word_seq_tensor[1] = SOS_token
        /\ word_seq_tensor[Len(word_seq_tensor)] = EOS_token
        /\ \A i \in 1..WtKept :
              word_seq_tensor[i + 1] = get_word_index(wt_words[i].word)

\* C26 witness: a call that kept a word that starts at the cutoff and dropped
\* the word after it.
C26_Witness ==
    /\ wt_pc = "done"
    /\ Len(wt_words) = 2
    /\ wt_end_time # None
    /\ wt_words[1].start = wt_end_time
    /\ wt_words[2].start > wt_end_time
    /\ word_seq_tensor = <<SOS_token, get_word_index(wt_words[1].word), EOS_token>>

(***************************************************************************)
(* load_iemocap_data: the statistics file                                  *)
(* Each of the three feature arrays of the training split is the set of    *)
(* its values.                                                             *)
(***************************************************************************)
MaxStat == 2        \* largest feature value

TrainChannels == [1..3 -> (SUBSET (0..MaxStat)) \ {{}}]

\* max_all = np.array(stats[:3]); min_all = np.array(stats[3:])
StatsOfTuple(stats) ==
    [max_all |-> SubSeq(stats, 1, 3), min_all |-> SubSeq(stats, 4, Len(stats))]

\* pickle.dump((max1, min1, max2, min2, max3, min3), af)
StatsTuple(ch) ==
    <<SetMax(ch[1]), SetMin(ch[1]), SetMax(ch[2]), SetMin(ch[2]), SetMax(ch[3]), SetMin(ch[3])>>

StIdle ==
    /\ st_pc = "idle"
    /\ st_train = [c \in 1..3 |-> {0}]
    /\ stats_file = <<>>
    /\ max_all = <<>>
    /\ min_all = <<>>
    /\ st_built = <<>>

StInit ==
    /\ st_pc = "absent"
    /\ st_train \in TrainChannels
    /\ stats_file = <<>>
    /\ max_all = <<>>
    /\ min_all = <<>>
    /\ st_built = <<>>

\* A call that finds a processed file missing: lines 362-367 and 406-410.
StBuild ==
    /\ st_pc = "absent"
    /\ stats_file' = StatsTuple(st_train)
    /\ max_all' = <<SetMax(st_train[1]), SetMax(st_train[2]), SetMax(st_train[3])>>
    /\ min_all' = <<SetMin(st_train[1]), SetMin(st_train[2]), SetMin(st_train[3])>>
    /\ st_built' = <<max_all', min_all'>>
    /\ st_pc' = "built"
    /\ UNCHANGED st_train
    /\ UNCHANGED st_others

\* A later call, which finds every processed file: lines 424-432.
StLoad ==
    /\ st_pc \in {"built", "loaded"}
    /\ max_all' = StatsOfTuple(stats_file).max_all
    /\ min_all' = StatsOfTuple(stats_file).min_all
    /\ st_pc' = "loaded"
    /\ UNCHANGED <<st_train, stats_file, st_built>>
    /\ UNCHANGED st_others

StNext == StBuild \/ StLoad

(***************************************************************************)
(* Claims about the statistics file                                        *)
(***************************************************************************)
\* C27 as claimed: a call that loads the processed files returns the max_all and
\* min_all that the building call returned: the maxima and the minima of the
\* three training arrays.
C27_StatsRoundTrip ==
    st_pc \in {"built", "loaded"} =>
        /\ max_all = <<SetMax(st_train[1]), SetMax(st_train[2]), SetMax(st_train[3])>>
        /\ min_all = <<SetMin(st_train[1]), SetMin(st_train[2]), SetMin(st_train[3])>>
        /\ <<max_all, min_all>> = st_built

\* What the loading call returns: the first and the last three entries of the
\* interleaved tuple.
StatsAsLoaded ==
    st_pc = "loaded" =>
        /\ max_all = <<st_built[1][1], st_built[2][1], st_built[1][2]>>
        /\ min_all = <<st_built[2][2], st_built[1][3], st_built[2][3]>>

(***************************************************************************)
(* Processor.generate_gestures: evaluation in chunks, and return_batch     *)
(***************************************************************************)
MaxGenerate == 4        \* samples beyond a whole number of chunks
MaxSpare == 1           \* test samples beyond samples_to_generate
MaxShift == 2           \* outcomes of np.random.choice tried

\* batch_size = 2048 in generate_gestures
GgBatchSize == 2048

\* np.arange(from, to)
Arange(from, to) == [i \in 1..Max(0, to - from) |-> from + i - 1]

\* np.random.choice(n, size, replace = False) under a uniform distribution: size
\* distinct indices below n.  The outcomes tried are the rotations of
\* 0 .. size - 1 by up to MaxShift; size is never above n here.
RandomKeys(n, size) ==
    {[i \in 1..size |-> (i - 1 + shift) % n] : shift \in 0..Min(MaxShift, Max(0, n - 1))}

\* return_batch, lines 643-652: a chunk of more than one index is the keys; the
\* single element of any other chunk is taken as a batch size.
RandKeys(chunk, n, randomized) ==
    IF Len(chunk) > 1 THEN {chunk}
    ELSE IF randomized THEN RandomKeys(n, chunk[1])
    ELSE {Arange(0, chunk[1])}

\* The values samples_to_generate takes: up to MaxGenerate samples, alone or
\* after one whole chunk.
SamplesToGenerate ==
    (0..MaxGenerate) \cup {GgBatchSize + k : k \in 0..MaxGenerate}

GgIdle ==
    /\ gg_pc = "idle"
    /\ samples_to_generate = 0
    /\ gg_randomized = FALSE
    /\ num_test_samples = 0
    /\ sample_idx = 0
    /\ samples_curr = <<>>
    /\ rb_rand_keys = <<>>
    /\ gg_evaluated = <<>>

\* A call on a test split that has the samples asked for.
GgInit ==
    /\ gg_pc = "loop"
    /\ samples_to_generate \in SamplesToGenerate
    /\ gg_randomized \in BOOLEAN
    /\ num_test_samples \in {samples_to_generate + k : k \in 0..MaxSpare}
    /\ sample_idx = 0
    /\ samples_curr = <<>>
    /\ rb_rand_keys = <<>>
    /\ gg_evaluated = <<>>

\* One iteration of the loop at line 1093: the chunk, return_batch on it, the
\* forward pass on the batch.
GgChunk ==
    /\ gg_pc = "loop"
    /\ sample_idx < samples_to_generate
    /\ LET chunk == Arange(sample_idx,
                           sample_idx + Min(GgBatchSize, samples_to_generate - sample_idx))
       IN /\ samples_curr' = chunk
          /\ rb_rand_keys' \in RandKeys(chunk, num_test_samples, gg_randomized)
          /\ gg_evaluated' = gg_evaluated \o rb_rand_keys'
    /\ sample_idx' = sample_idx + GgBatchSize
    /\ UNCHANGED <<gg_pc, samples_to_generate, gg_randomized, num_test_samples>>
    /\ UNCHANGED gg_others

\* The loop is over: the metrics are printed.
GgFinish ==
    /\ gg_pc = "loop"
    /\ sample_idx >= samples_to_generate
    /\ gg_pc' = "done"
    /\ UNCHANGED <<samples_to_generate, gg_randomized, num_test_samples, sample_idx,
                   samples_curr, rb_rand_keys, gg_evaluated>>
    /\ UNCHANGED gg_others

GgNext == GgChunk \/ GgFinish

(***************************************************************************)
(* Claims about generate_gestures                                          *)
(***************************************************************************)
\* C28 as claimed: every chunk has at most 2048 indices and return_batch's batch
\* holds exactly the chunk's samples, also for a chunk of one index; at the end
\* the samples 0 .. samples_to_generate - 1 have been evaluated once each.
C28_ChunksEvaluated ==
    /\ Len(samples_curr) <= GgBatchSize
    /\ rb_rand_keys = samples_curr
    /\ gg_pc = "done" => gg_evaluated = Arange(0, samples_to_generate)

\* What holds: the claim for every call whose chunks all have two indices or more.
ChunksOfTwoOrMore ==
    (samples_to_generate % GgBatchSize # 1) =>
        /\ Len(samples_curr) <= GgBatchSize
        /\ rb_rand_keys = samples_curr
        /\ gg_pc = "done" => gg_evaluated = Arange(0, samples_to_generate)

(***************************************************************************)
(* Processor.train: validation and checkpoints                             *)
(* Losses are integers; np.inf is LossInf.                                 *)
(***************************************************************************)
MaxEpochs == 4        \* largest s2ag_num_epoch
MaxInterval == 2      \* largest val_interval and save_interval
MaxMinEpochs == 1     \* largest min_train_epochs
MaxLoss == 2          \* largest mean validation loss

LossInf == MaxLoss + 1

TrainArgs ==
    [val_interval : 1..MaxInterval, save_interval : 1..MaxInterval,
     num_epoch : 1..MaxEpochs, s2ag_num_epoch : 1..MaxEpochs]

\* Line 1055: the epoch runs a validation pass.
ValidationDue(e, args) == (e % args.val_interval = 0) \/ (e + 1 = args.num_epoch)

\* Lines 1020-1021 of per_val_epoch: the mean loss is a new best.
NewBest(loss, best, e, min_epochs) == loss < best /\ e > min_epochs

\* Line 1062: the epoch writes a checkpoint.
SaveDue(updated, e, args, min_epochs) ==
    updated \/ (e % args.save_interval = 0 /\ e > min_epochs)

TrIdle ==
    /\ tr_pc = "idle"
    /\ tr_args = [val_interval |-> 1, save_interval |-> 1, num_epoch |-> 1, s2ag_num_epoch |-> 1]
    /\ min_train_epochs = 0
    /\ tr_epoch = 0
    /\ best_s2ag_loss = LossInf
    /\ s2ag_loss_updated = FALSE
    /\ mean_s2ag_loss = <<>>
    /\ tr_validated = FALSE
    /\ tr_improved = FALSE
    /\ tr_saved = FALSE

\* A freshly constructed Processor (lines 127-130) whose training starts at
\* epoch 0 (s2ag_load_last_best unset).
TrInit ==
    /\ tr_pc = "loop"
    /\ tr_args \in TrainArgs
    /\ min_train_epochs \in 0..MaxMinEpochs
    /\ tr_epoch = 0
    /\ best_s2ag_loss = LossInf
    /\ s2ag_loss_updated = FALSE
    /\ mean_s2ag_loss = <<>>
    /\ tr_validated = FALSE
    /\ tr_improved = FALSE
    /\ tr_saved = FALSE

\* One epoch of the loop at line 1046: per_train_epoch, per_val_epoch if due,
\* the checkpoint if due.  A validation pass ends with some mean loss.
TrEpoch ==
    /\ tr_pc = "loop"
    /\ tr_epoch < tr_args.s2ag_num_epoch
    /\ IF ValidationDue(tr_epoch, tr_args)
       THEN \E loss \in 0..MaxLoss :
               /\ mean_s2ag_loss' = <<loss>>
               /\ tr_validated' = TRUE
               /\ tr_improved' = NewBest(loss, best_s2ag_loss, tr_epoch, min_train_epochs)
               /\ s2ag_loss_updated' =
                      NewBest(loss, best_s2ag_loss, tr_epoch, min_train_epochs)
               /\ best_s2ag_loss' =
                      IF NewBest(loss, best_s2ag_loss, tr_epoch, min_train_epochs)
                      THEN loss ELSE best_s2ag_loss
       ELSE /\ tr_validated' = FALSE
            /\ tr_improved' = FALSE
            /\ UNCHANGED <<mean_s2ag_loss, s2ag_loss_updated, best_s2ag_loss>>
    /\ tr_saved' = SaveDue(s2ag_loss_updated', tr_epoch, tr_args, min_train_epochs)
    /\ tr_epoch' = tr_epoch + 1
    /\ UNCHANGED <<tr_pc, tr_args, min_train_epochs>>
    /\ UNCHANGED tr_others

TrFinish ==
    /\ tr_pc = "loop"
    /\ tr_epoch >= tr_args.s2ag_num_epoch
    /\ tr_pc' = "done"
    /\ UNCHANGED <<tr_args, min_train_epochs, tr_epoch, best_s2ag_loss, s2ag_loss_updated,
                   mean_s2ag_loss, tr_validated, tr_improved, tr_saved>>
    /\ UNCHANGED tr_others

TrNext == TrEpoch \/ TrFinish

(***************************************************************************)
(* Claims about train                                                      *)
(***************************************************************************)
\* C29 as claimed: an epoch e writes a checkpoint only if its own validation
\* pass lowered the best loss, which needs e > min_train_epochs, or e is a
\* multiple of save_interval above min_train_epochs; best_s2ag_loss never grows.
C29_CheckpointOnlyWhenDue ==
    [][(tr_pc = "loop" /\ tr_epoch' = tr_epoch + 1) =>
          /\ tr_saved' =>
                \/ tr_validated' /\ tr_improved' /\ tr_epoch > min_train_epochs
                \/ tr_epoch % tr_args.save_interval = 0 /\ tr_epoch > min_train_epochs
          /\ tr_improved' => tr_epoch > min_train_epochs
          /\ best_s2ag_loss' <= best_s2ag_loss
      ]_vars

\* What holds: a checkpoint is written only if the latest validation pass, of
\* this epoch or an earlier one, lowered the best loss, or the save interval is
\* due; best_s2ag_loss never grows and changes only above min_train_epochs.
CheckpointOnStaleFlag ==
    [][(tr_pc = "loop" /\ tr_epoch' = tr_epoch + 1) =>
          /\ tr_saved' <=>
                \/ s2ag_loss_updated'
                \/ tr_epoch % tr_args.save_interval = 0 /\ tr_epoch > min_train_epochs
          /\ ~tr_validated' => s2ag_loss_updated' = s2ag_loss_updated
          /\ tr_improved' => tr_epoch > min_train_epochs
          /\ best_s2ag_loss' <= best_s2ag_loss
      ]_vars

(***************************************************************************)
(* load_ted_db_data: the per-sample archives written by save_as_npz        *)
(* A record is <<split, key>>: the split whose store holds it and its key. *)
(***************************************************************************)
MaxKeys == 2        \* records in one split's store

Splits == {"train", "val", "test"}

\* The store of a split: its records by key, 0 .. n - 1.
StoreOf(split, n) == [k \in 1..n |-> <<split, k - 1>>]

\* The class of train_dataset and val_dataset (lines 566-588); test_dataset is
\* always a TedDBParams.  Only TedDBParams opens lmdb_env.
DatasetClass(split, train_val) ==
    IF split = "test" \/ train_val THEN "TedDBParams" ELSE "TedDBParamsMinimal"

\* Lines 613-617: the save_as_npz calls, <<dataset, part_name>>, in order.
SaveCalls(train_val) ==
    IF train_val
    THEN <<<<"train", "train">>, <<"train", "val">>, <<"train", "test">>>>
    ELSE <<<<"train", "test">>>>

NoIndividual == [p \in Splits |-> <<>>]

TdIdle ==
    /\ td_pc = "idle"
    /\ load_train_val = FALSE
    /\ ted_db_npz_already_processed = TRUE
    /\ td_sizes = [s \in Splits |-> 0]
    /\ td_calls = <<>>
    /\ td_individual = NoIndividual

TdInit ==
    /\ td_pc = "call"
    /\ load_train_val \in BOOLEAN
    /\ ted_db_npz_already_processed \in BOOLEAN
    /\ td_sizes \in [Splits -> 0..MaxKeys]
    /\ td_calls = <<>>
    /\ td_individual = NoIndividual

\* load_ted_db_data up to line 612: the datasets and the vocabulary.
TdLoad ==
    /\ td_pc = "call"
    /\ td_calls' = IF ted_db_npz_already_processed THEN <<>> ELSE SaveCalls(load_train_val)
    /\ td_pc' = "saving"
    /\ UNCHANGED <<load_train_val, ted_db_npz_already_processed, td_sizes, td_individual>>
    /\ UNCHANGED td_others

\* One save_as_npz(dataset, part_name) call, lines 550-562: an archive per key of
\* the dataset's store; dataset.lmdb_env raises AttributeError on a
\* TedDBParamsMinimal.
TdSaveAsNpz ==
    /\ td_pc = "saving"
    /\ td_calls # <<>>
    /\ LET dataset == Head(td_calls)[1]
           part_name == Head(td_calls)[2]
       IN IF DatasetClass(dataset, load_train_val) = "TedDBParams"
          THEN /\ td_individual' =
                     [td_individual EXCEPT ![part_name] = StoreOf(dataset, td_sizes[dataset])]
               /\ td_calls' = Tail(td_calls)
               /\ UNCHANGED td_pc
          ELSE /\ td_pc' = "error"
               /\ UNCHANGED <<td_calls, td_individual>>
    /\ UNCHANGED <<load_train_val, ted_db_npz_already_processed, td_sizes>>
    /\ UNCHANGED td_others

\* Line 619: the three datasets are returned.
TdReturn ==
    /\ td_pc = "saving"
    /\ td_calls = <<>>
    /\ td_pc' = "done"
    /\ UNCHANGED <<load_train_val, ted_db_npz_already_processed, td_sizes, td_calls,
                   td_individual>>
    /\ UNCHANGED td_others

TdNext == TdLoad \/ TdSaveAsNpz \/ TdReturn

(***************************************************************************)
(* Claims about load_ted_db_data                                           *)
(***************************************************************************)
\* C30 as claimed: a call with ted_db_npz_already_processed = False completes,
\* with load_train_val or without; after it the archives under 'test', and with
\* load_train_val those under 'train' and 'val', are the records of that split's
\* own store, one per key.
C30_OwnSplitArchives ==
    ~ted_db_npz_already_processed =>
        /\ td_pc # "error"
        /\ td_pc = "done" =>
              \A p \in Splits :
                  (p = "test" \/ load_train_val) =>
                      td_individual[p] = StoreOf(p, td_sizes[p])

\* What holds: with load_train_val every part holds the records of the training
\* store; without it the call fails before it writes anything.
ArchivesOfTrainingStore ==
    ~ted_db_npz_already_processed =>
        /\ td_pc = "error" => ~load_train_val
        /\ td_pc = "done" =>
              /\ load_train_val
              /\ \A p \in Splits : td_individual[p] = StoreOf("train", td_sizes["train"])
        /\ ~load_train_val => td_individual = NoIndividual

(***************************************************************************)
(* Specifications                                                          *)
(***************************************************************************)
InitIemocap == IeInit /\ AlIdle /\ RcIdle /\ YbIdle /\ AuIdle /\ ChIdle /\ SpIdle /\ PmIdle /\ WtIdle /\ StIdle /\ GgIdle /\ TrIdle /\ TdIdle

SpecIemocap == InitIemocap /\ [][IeNext]_vars

InitAlign == AlInit /\ IeIdle /\ RcIdle /\ YbIdle /\ AuIdle /\ ChIdle /\ SpIdle /\ PmIdle /\ WtIdle /\ StIdle /\ GgIdle /\ TrIdle /\ TdIdle

SpecAlign == InitAlign /\ [][AlNext]_vars

InitRender == RcInit /\ IeIdle /\ AlIdle /\ YbIdle /\ AuIdle /\ ChIdle /\ SpIdle /\ PmIdle /\ WtIdle /\ StIdle /\ GgIdle /\ TrIdle /\ TdIdle

SpecRender == InitRender /\ [][RcNext]_vars

InitBatch == YbInit /\ IeIdle /\ AlIdle /\ RcIdle /\ AuIdle /\ ChIdle /\ SpIdle /\ PmIdle /\ WtIdle /\ StIdle /\ GgIdle /\ TrIdle /\ TdIdle

SpecBatch == InitBatch /\ [][YbNext]_vars

\* The generator's caller keeps iterating: a pass that can run does run.
SpecBatchFair == SpecBatch /\ WF_vars(YbNext)

InitAudio == AuInit /\ IeIdle /\ AlIdle /\ RcIdle /\ YbIdle /\ ChIdle /\ SpIdle /\ PmIdle /\ WtIdle /\ StIdle /\ GgIdle /\ TrIdle /\ TdIdle

SpecAudio == InitAudio /\ [][AuNext]_vars

InitCache == ChInit /\ IeIdle /\ AlIdle /\ RcIdle /\ YbIdle /\ AuIdle /\ SpIdle /\ PmIdle /\ WtIdle /\ StIdle /\ GgIdle /\ TrIdle /\ TdIdle

SpecCache == InitCache /\ [][ChNext]_vars

InitSpeaker == SpInit /\ IeIdle /\ AlIdle /\ RcIdle /\ YbIdle /\ AuIdle /\ ChIdle /\ PmIdle /\ WtIdle /\ StIdle /\ GgIdle /\ TrIdle /\ TdIdle

SpecSpeaker == InitSpeaker /\ [][SpNext]_vars

InitParams == PmInit /\ IeIdle /\ AlIdle /\ RcIdle /\ YbIdle /\ AuIdle /\ ChIdle /\ SpIdle /\ WtIdle /\ StIdle /\ GgIdle /\ TrIdle /\ TdIdle

SpecParams == InitParams /\ [][PmNext]_vars

InitWords == WtInit /\ IeIdle /\ AlIdle /\ RcIdle /\ YbIdle /\ AuIdle /\ ChIdle /\ SpIdle /\ PmIdle /\ StIdle /\ GgIdle /\ TrIdle /\ TdIdle

SpecWords == InitWords /\ [][WtNext]_vars

InitStats == StInit /\ IeIdle /\ AlIdle /\ RcIdle /\ YbIdle /\ AuIdle /\ ChIdle /\ SpIdle /\ PmIdle /\ WtIdle /\ GgIdle /\ TrIdle /\ TdIdle

SpecStats == InitStats /\ [][StNext]_vars

InitGenerate == GgInit /\ IeIdle /\ AlIdle /\ RcIdle /\ YbIdle /\ AuIdle /\ ChIdle /\ SpIdle /\ PmIdle /\ WtIdle /\ StIdle /\ TrIdle /\ TdIdle

SpecGenerate == InitGenerate /\ [][GgNext]_vars

InitTrain == TrInit /\ IeIdle /\ AlIdle /\ RcIdle /\ YbIdle /\ AuIdle /\ ChIdle /\ SpIdle /\ PmIdle /\ WtIdle /\ StIdle /\ GgIdle /\ TdIdle

SpecTrain == InitTrain /\ [][TrNext]_vars

InitTedDb == TdInit /\ IeIdle /\ AlIdle /\ RcIdle /\ YbIdle /\ AuIdle /\ ChIdle /\ SpIdle /\ PmIdle /\ WtIdle /\ StIdle /\ GgIdle /\ TrIdle

SpecTedDb == InitTedDb /\ [][TdNext]_vars

====
